---- MODULE Spec2Model ----
(***************************************************************************)
(* Model of ignited: the kernel-module loader (src/src/module.rs), the     *)
(* module-alias table, the long-lived threads (src/src/udev.rs,            *)
(* src/src/sysfs.rs, src/src/common.rs) and the orchestrator               *)
(* (src/src/main.rs).                                                      *)
(*                                                                         *)
(* ModLoading keeps a ledger (loaded, loading) behind one mutex.  Every    *)
(* load_modules call creates a WaitGroup, takes the mutex and runs         *)
(* load_modules_unlocked, which spawns one worker thread (load_module) per *)
(* module it inserts into `loading`; a spawned worker runs while the       *)
(* spawner is still at work under the mutex.  A WaitGroup is modelled by   *)
(* the number of its live clones; wait() returns when the waiter's clone   *)
(* is the only one left.                                                   *)
(***************************************************************************)
EXTENDS Integers, Sequences, FiniteSets, TLC

\* Number of load_modules calls made over the process lifetime.
MaxRequests == 2

VARIABLES
    cfg,        \* RuntimeConfig metadata: frozen after construction
    loaded,     \* ModLoadingInner.loaded (set of module names)
    loading,    \* ModLoadingInner.loading: module -> sequence of WaitGroup clones
    mutex,      \* owner of the Mutex<ModLoadingInner>
    wgCount,    \* WaitGroup -> number of live clones
    nextWg,     \* number of the next deps_wg / worker thread
    workers,    \* spawned load_module threads
    req,        \* the callers of load_modules
    syscalls,   \* history: module -> number of finit_module syscalls issued
    finitDone,  \* history: module -> number of finit calls that returned Ok
    sysconf,    \* engine.toml [ignited]: module-force, mount-timeout
    aliases,    \* ModAliases.aliases: the alias table, frozen
    processed,  \* ModAliases.bookkeeping_processed
    acalls,     \* the match_alias / load_modalias calls made so far
    cmd,        \* CmdlineArgs::parse_current: the parser and its KmsgBuf
    kmsg,       \* the entries written to /dev/kmsg
    fs,         \* the file tree delete_ramfs works on
    orch,       \* the orchestrator thread (main, init)
    threads,    \* the long-lived threads behind a ThreadHandle
    handlers,   \* the per-uevent threads the udev listener has spawned
    mainWaker   \* the main event loop has a pending main-waker event

\* The loader's state
lvars == <<cfg, loaded, loading, mutex, wgCount, nextWg, workers, req,
           syscalls, finitDone>>

\* The command-line parser, the kernel log, the ramfs
pvars == <<cmd, kmsg, fs>>

\* The alias set, the orchestrator and the long-lived threads
ovars == <<sysconf, aliases, processed, acalls, orch, threads, handlers,
          mainWaker>>

\* The state of the alias set, the orchestrator, the long-lived threads and
\* the parts above
bvars == <<sysconf, aliases, processed, acalls, orch, threads, handlers,
          mainWaker, pvars>>

vars == <<cfg, loaded, loading, mutex, wgCount, nextWg, workers, req,
          syscalls, finitDone, sysconf, aliases, processed, acalls, orch,
          threads, handlers, mainWaker, cmd, kmsg, fs>>

Modules == {"a", "b", "c", "d", "x", "y", "k"}

NoDeps == [m \in Modules |-> <<>>]

\* Elements of a sequence.
Range(s) == {s[i] : i \in 1..Len(s)}

(***************************************************************************)
(* Configurations (engine.toml [metadata]).  module_deps and               *)
(* module_post_deps map a module to a list; a missing key behaves as the   *)
(* empty list.  `requests` are the module lists callers pass.              *)
(***************************************************************************)
\* module-deps = {a:[b,c], b:[d]}, module-post-deps = {a:[x]}
CfgChain ==
    [name |-> "chain",
     module_builtin |-> <<>>,
     module_deps |-> [NoDeps EXCEPT !["a"] = <<"b", "c">>, !["b"] = <<"d">>],
     module_post_deps |-> [NoDeps EXCEPT !["a"] = <<"x">>],
     requests |-> {<<"a">>, <<"b">>}]

\* module-post-deps = {a:[x,y]}
CfgPost ==
    [name |-> "post",
     module_builtin |-> <<>>,
     module_deps |-> NoDeps,
     module_post_deps |-> [NoDeps EXCEPT !["a"] = <<"x", "y">>],
     requests |-> {<<"a">>, <<"x">>}]

\* module-builtin = [k]; k has a pre- and a post-dependency of its own
CfgBuiltin ==
    [name |-> "builtin",
     module_builtin |-> <<"k">>,
     module_deps |-> [NoDeps EXCEPT !["k"] = <<"b">>, !["a"] = <<"k">>],
     module_post_deps |-> [NoDeps EXCEPT !["k"] = <<"x">>, !["a"] = <<"x">>],
     requests |-> {<<"k">>, <<"k", "a">>, <<"a", "a">>}]

\* a post-dependency that names its parent as a pre-dependency
CfgPostPre ==
    [name |-> "postpre",
     module_builtin |-> <<>>,
     module_deps |-> [NoDeps EXCEPT !["x"] = <<"a">>],
     module_post_deps |-> [NoDeps EXCEPT !["a"] = <<"x">>],
     requests |-> {<<"a">>}]

\* a cycle in module-deps
CfgCycle ==
    [name |-> "cycle",
     module_builtin |-> <<>>,
     module_deps |-> [NoDeps EXCEPT !["a"] = <<"b">>, !["b"] = <<"a">>],
     module_post_deps |-> NoDeps,
     requests |-> {<<"a">>}]

Configs == {CfgChain, CfgPost, CfgBuiltin, CfgPostPre, CfgCycle}

module_builtin == Range(cfg.module_builtin)
module_deps(m) == cfg.module_deps[m]
module_post_deps(m) == cfg.module_post_deps[m]

(***************************************************************************)
(* Threads, WaitGroups.                                                    *)
(***************************************************************************)
Free == <<"free", 0>>
Caller(r) == <<"caller", r>>
Worker(w) == <<"worker", w>>

\* The WaitGroup created by the r-th load_modules call, and the deps_wg of
\* worker w.
ReqWg(r) == <<"wg", r>>
DepsWg(w) == <<"deps_wg", w>>

Requests == 1..MaxRequests
Workers == DOMAIN workers

\* WaitGroup::clone / drop
WgClone(count, wg) == [count EXCEPT ![wg] = @ + 1]
WgDrop(count, wg) == [count EXCEPT ![wg] = @ - 1]

RECURSIVE WgDropAll(_, _)
WgDropAll(count, wgs) ==
    IF wgs = <<>> THEN count
    ELSE WgDropAll(WgDrop(count, Head(wgs)), Tail(wgs))

\* Mutant: wait() returns without waiting for the other clones.
WgCanReturn_NoWait(count, wg) == count[wg] >= 1

\* WaitGroup::wait consumes the waiter's clone and returns once no other
\* clone is alive: it can return exactly when the count is 1.
WgCanReturn(count, wg) == count[wg] = 1

(***************************************************************************)
(* load_modules_unlocked: runs with the mutex held.  `unlocked` is the     *)
(* ledger together with the WaitGroup counts and the spawned threads.      *)
(* A thread spawned inside the loop runs at once, while the spawner is     *)
(* still in the loop or in an enclosing call, so the call is taken one     *)
(* clone of a WaitGroup at a time.  `todo` is what the holder of the lock  *)
(* still has to do, innermost call first: the modules its loops have not   *)
(* reached ("visit") and the threads to spawn once the recursion into the  *)
(* pre-dependencies has returned ("spawn").  root, via and parent record   *)
(* on whose behalf the call is made (history only).                        *)
(***************************************************************************)
\* Mutant: the module_builtin test is missing.
Skipped_LoadedOnly(unlocked, module) == module \in unlocked.loaded

Skipped(unlocked, module) ==
    module \in unlocked.loaded \/ module \in module_builtin

\* The iterations `for module in modules` of one call, under wg.
Visits(modules, wg, ctx) ==
    [i \in 1..Len(modules) |->
        [op |-> "visit", module |-> modules[i], wg |-> wg, w |-> 0,
         root |-> ctx.root, via |-> ctx.via, parent |-> ctx.parent]]

\* One step of load_modules_unlocked: the head of todo is carried out.
load_modules_unlocked(unlocked, todo) ==
    LET t == Head(todo)
        module == t.module
        wg == t.wg
    IN  IF t.op = "spawn"
        THEN \* wg.clone() and thread::spawn of load_module
             [unlocked |-> [unlocked EXCEPT
                  !.wgCount = WgClone(@, wg),
                  !.workers = @ @@ (t.w :>
                      [module |-> module, orig_wg |-> wg,
                       pc |-> "wait", err |-> "none", first |-> 0,
                       todo |-> <<>>,
                       root |-> t.root, via |-> t.via,
                       parent |-> t.parent])],
              todo |-> Tail(todo)]
        ELSE IF Skipped(unlocked, module)
        THEN [unlocked |-> unlocked, todo |-> Tail(todo)]
        ELSE IF module \in DOMAIN unlocked.loading
        THEN \* Entry::Occupied: push the clone, no worker
             [unlocked |-> [unlocked EXCEPT
                  !.loading[module] = Append(@, wg),
                  !.wgCount = WgClone(@, wg)],
              todo |-> Tail(todo)]
        ELSE \* Entry::Vacant: insert the clone, WaitGroup::new(), then the
             \* pre-dependencies under deps_wg and after them the spawn
             LET w == unlocked.nextWg
                 deps_wg == DepsWg(w)
             IN  [unlocked |-> [unlocked EXCEPT
                      !.loading = @ @@ (module :> <<wg>>),
                      !.wgCount = WgClone(@, wg) @@ (deps_wg :> 1),
                      !.nextWg = w + 1],
                  todo |-> Visits(module_deps(module), deps_wg,
                               [root |-> t.root, via |-> "pre", parent |-> w])
                           \o <<[t EXCEPT !.op = "spawn", !.w = w]>>
                           \o Tail(todo)]

Ledger == [loaded |-> loaded, loading |-> loading, wgCount |-> wgCount,
           nextWg |-> nextWg, workers |-> workers]

Install(st) ==
    /\ loaded' = st.loaded
    /\ loading' = st.loading
    /\ wgCount' = st.wgCount
    /\ nextWg' = st.nextWg
    /\ workers' = st.workers

(***************************************************************************)
(* Callers: load_modules, then ModWg::wait.                                *)
(***************************************************************************)
\* load_modules is entered: WaitGroup::new().  `early` remembers whether the
\* call was made before any finit had returned (history only).
LoadModulesCall(r, modules) ==
    /\ req[r].pc = "idle"
    /\ \A q \in 1..(r - 1) : req[q].pc # "idle"
    /\ wgCount' = wgCount @@ (ReqWg(r) :> 1)
    /\ req' = [req EXCEPT ![r] = [pc |-> "called", modules |-> modules,
                                  early |-> \A m \in Modules : finitDone[m] = 0,
                                  first |-> 0, todo |-> <<>>]]
    /\ UNCHANGED <<cfg, loaded, loading, mutex, nextWg, workers, syscalls,
                   finitDone>>

\* self.bookkeeping.lock() succeeds and load_modules_unlocked is entered
\* with the whole list to do.  `first` remembers the index the next worker
\* will get: the workers from it on are spawned in this critical section
\* (history only, forgotten when the guard is dropped).
LoadModulesLock(r) ==
    /\ req[r].pc = "called"
    /\ mutex = Free
    /\ mutex' = Caller(r)
    /\ req' = [req EXCEPT ![r].pc = "locked", ![r].first = nextWg,
                          ![r].todo = Visits(req[r].modules, ReqWg(r),
                              [root |-> r, via |-> "direct", parent |-> 0])]
    /\ UNCHANGED <<cfg, loaded, loading, wgCount, nextWg, workers, syscalls,
                   finitDone>>

\* load_modules_unlocked under the mutex, one step at a time: an entry is
\* queued or a worker spawned, which can run at once while the caller is
\* still in the loop; with nothing left to do the call returns Ok(())
LoadModulesEnqueue(r) ==
    /\ req[r].pc = "locked"
    /\ mutex = Caller(r)
    /\ IF req[r].todo = <<>>
       THEN /\ req' = [req EXCEPT ![r].pc = "enqueued"]
            /\ UNCHANGED <<loaded, loading, wgCount, nextWg, workers>>
       ELSE LET st == load_modules_unlocked(Ledger, req[r].todo)
            IN  /\ Install(st.unlocked)
                /\ req' = [req EXCEPT ![r].todo = st.todo]
    /\ UNCHANGED <<cfg, mutex, syscalls, finitDone>>

\* load_modules returns Ok(ModWg(wg)): the guard is dropped
LoadModulesReturn(r) ==
    /\ req[r].pc = "enqueued"
    /\ mutex = Caller(r)
    /\ mutex' = Free
    /\ req' = [req EXCEPT ![r].pc = "returned", ![r].first = 0]
    /\ UNCHANGED <<cfg, loaded, loading, wgCount, nextWg, workers, syscalls,
                   finitDone>>

\* ModWg::wait returns
ModWgWait(r) ==
    /\ req[r].pc = "returned"
    /\ WgCanReturn(wgCount, ReqWg(r))
    /\ wgCount' = WgDrop(wgCount, ReqWg(r))
    /\ req' = [req EXCEPT ![r].pc = "released"]
    /\ UNCHANGED <<cfg, loaded, loading, mutex, nextWg, workers, syscalls,
                   finitDone>>

(***************************************************************************)
(* early_logging: VerbosityLevel and KConsole.                             *)
(***************************************************************************)
Debug == 7
Info == 6
Notice == 5
Warn == 4
Err == 3
Crit == 2

\* impl Default for VerbosityLevel
VerbosityLevel_default == Info

\* KConsole::println: the entry is written iff its level is at most the
\* threshold.  `out` collects what the step writes to /dev/kmsg.
KConsole_println(p, req_level, args) ==
    IF req_level <= p.current_level
    THEN [p EXCEPT !.out = Append(@, [level |-> req_level, args |-> args])]
    ELSE p

\* KConsole::change_verbosity
change_verbosity(p, new_level) == [p EXCEPT !.current_level = new_level]

\* What finit writes to /dev/kmsg for `module`: its KConsole is a new one,
\* with the default threshold; once the file is open it logs "loading
\* module" at Debug, and it logs nothing when a step fails (`e` is the step
\* that failed, "none" if finit returns Ok).
finit_log(module, e) ==
    LET kcon == [current_level |-> VerbosityLevel_default, out |-> <<>>]
    IN  IF e = "open" THEN <<>>
        ELSE KConsole_println(kcon, Debug, <<"loading module", module>>).out

\* The worker's finit has written its entries.
FinitLogged(w, e) == kmsg' = kmsg \o finit_log(workers[w].module, e)

(***************************************************************************)
(* Worker thread: load_module.                                             *)
(***************************************************************************)
\* Ways finit can fail
FinitErrors == {"open", "nul", "finit_module"}

\* KConsole::new().unwrap() panics (/dev/kmsg cannot be opened) before
\* deps_wg.wait(): the thread unwinds, dropping the parameters deps_wg and
\* orig_wg; the ledger is not touched, the module stays a key of `loading`
LoadModulePanic(w) ==
    /\ workers[w].pc = "wait"
    /\ workers' = [workers EXCEPT ![w].pc = "panicked"]
    /\ wgCount' = WgDrop(WgDrop(wgCount, DepsWg(w)), workers[w].orig_wg)
    /\ UNCHANGED <<cfg, loaded, loading, mutex, nextWg, req, syscalls,
                   finitDone>>

\* KConsole::new() is Ok and deps_wg.wait() returns; finit is entered
LoadModuleDepsWaited(w) ==
    /\ workers[w].pc = "wait"
    /\ WgCanReturn(wgCount, DepsWg(w))
    /\ wgCount' = WgDrop(wgCount, DepsWg(w))
    /\ workers' = [workers EXCEPT ![w].pc = "finit"]
    /\ UNCHANGED <<cfg, loaded, loading, mutex, nextWg, req, syscalls,
                   finitDone>>

\* finit returns Ok
FinitOk(w) ==
    /\ workers[w].pc = "finit"
    /\ workers' = [workers EXCEPT ![w].pc = "finit_ok"]
    /\ syscalls' = [syscalls EXCEPT ![workers[w].module] = @ + 1]
    /\ finitDone' = [finitDone EXCEPT ![workers[w].module] = @ + 1]
    /\ UNCHANGED <<cfg, loaded, loading, mutex, wgCount, nextWg, req>>

\* Mutant: a failing worker removes its module from `loading` and drops the
\* queued clones before it returns.
FinitErr_Release(w, e) ==
    /\ workers[w].pc = "finit"
    /\ mutex = Free
    /\ LET m == workers[w].module
       IN  /\ loading' = [n \in DOMAIN loading \ {m} |-> loading[n]]
           /\ wgCount' = WgDrop(WgDropAll(wgCount, loading[m]),
                                workers[w].orig_wg)
    /\ workers' = [workers EXCEPT ![w].pc = "failed", ![w].err = e]
    /\ UNCHANGED <<cfg, loaded, mutex, nextWg, req, syscalls, finitDone>>

\* finit returns Err: `?` leaves load_module, dropping orig_wg
FinitErr(w, e) ==
    /\ workers[w].pc = "finit"
    /\ workers' = [workers EXCEPT ![w].pc = "failed", ![w].err = e]
    /\ syscalls' = IF e = "finit_module"
                   THEN [syscalls EXCEPT ![workers[w].module] = @ + 1]
                   ELSE syscalls
    /\ wgCount' = WgDrop(wgCount, workers[w].orig_wg)
    /\ UNCHANGED <<cfg, loaded, loading, mutex, nextWg, req, finitDone>>

\* Mutant: the clones are dropped but the key stays in `loading`.
RemoveLoading_KeepKey(unlocked, module) ==
    IF module \in DOMAIN unlocked.loading
    THEN [unlocked EXCEPT
            !.loading[module] = <<>>,
            !.wgCount = WgDropAll(@, unlocked.loading[module])]
    ELSE unlocked

\* The ledger after `unlocked.loading.remove(module)` and the drop of the
\* removed clones.
RemoveLoading(unlocked, module) ==
    IF module \in DOMAIN unlocked.loading
    THEN [unlocked EXCEPT
            !.loading = [m \in DOMAIN @ \ {module} |-> @[m]],
            !.wgCount = WgDropAll(@, unlocked.loading[module])]
    ELSE unlocked

\* Mutant: the post-dependencies are submitted under the worker's own
\* deps_wg instead of the caller's token.
PostDepsWg_Deps(w) == DepsWg(w)

\* The WaitGroup under which worker w submits its post-dependencies.
PostDepsWg(w) == workers[w].orig_wg

\* The call of load_modules_unlocked on the post-dependencies of worker w,
\* under orig_wg.
PostDepVisits(w) ==
    Visits(module_post_deps(workers[w].module), PostDepsWg(w),
           [root |-> workers[w].root, via |-> "post", parent |-> w])

\* lock the ledger, remove the module from `loading`, drop its clones; the
\* post-dependencies are then all to do.  `first` remembers the index the
\* next worker will get (history only).
LoadModuleRemove(w) ==
    /\ workers[w].pc = "finit_ok"
    /\ mutex = Free
    /\ mutex' = Worker(w)
    /\ LET st == RemoveLoading(Ledger, workers[w].module)
       IN  Install([st EXCEPT !.workers[w].pc = "removed",
                              !.workers[w].first = nextWg,
                              !.workers[w].todo = PostDepVisits(w)])
    /\ UNCHANGED <<cfg, req, syscalls, finitDone>>

\* submit the post-dependencies under orig_wg, one step at a time: an
\* entry is queued or a worker spawned, which can run at once while this
\* worker is still in the loop; with nothing left to do the call returns
LoadModulePostDeps(w) ==
    /\ workers[w].pc \in {"removed", "post_deps"}
    /\ mutex = Worker(w)
    /\ IF workers[w].todo = <<>>
       THEN /\ workers' = [workers EXCEPT ![w].pc = "submitted"]
            /\ UNCHANGED <<loaded, loading, wgCount, nextWg>>
       ELSE LET st == load_modules_unlocked(Ledger, workers[w].todo)
            IN  Install([st.unlocked EXCEPT !.workers[w].pc = "post_deps",
                                            !.workers[w].todo = st.todo])
    /\ UNCHANGED <<cfg, mutex, req, syscalls, finitDone>>

\* at the end of load_module the guard is dropped first (the local
\* declared last)
LoadModuleUnlock(w) ==
    /\ workers[w].pc = "submitted"
    /\ mutex = Worker(w)
    /\ mutex' = Free
    /\ workers' = [workers EXCEPT ![w].pc = "unlocked", ![w].first = 0]
    /\ UNCHANGED <<cfg, loaded, loading, wgCount, nextWg, req, syscalls,
                   finitDone>>

\* load_module returns Ok: the parameter orig_wg is dropped, with the
\* ledger already unlocked
LoadModuleReturn(w) ==
    /\ workers[w].pc = "unlocked"
    /\ wgCount' = WgDrop(wgCount, workers[w].orig_wg)
    /\ workers' = [workers EXCEPT ![w].pc = "done"]
    /\ UNCHANGED <<cfg, loaded, loading, mutex, nextWg, req, syscalls,
                   finitDone>>

(***************************************************************************)
(* The orchestrator's configuration and the threads before they start.     *)
(***************************************************************************)
\* mount-timeout: Option<i64>
None == [some |-> FALSE, val |-> 0]
Some(n) == [some |-> TRUE, val |-> n]

\* [ignited] with no forced module and no mount-timeout key
NoSysconf == [module_force |-> <<>>, mount_timeout |-> None]

\* The long-lived threads: the udev listener and the two sysfs threads.
ThreadNames == {"udev", "sysfs-modalias", "sysfs-walker"}

\* No thread has been spawned.  `state` is the thread's position, `woken`
\* whether its waker has a pending event, `wakes` and `joined` what its
\* owner has done with the ThreadHandle, `quit` what made the thread leave
\* its event loop by returning.
NoThreads ==
    [t \in ThreadNames |->
        [state |-> "unspawned", woken |-> FALSE, wakes |-> 0,
         joined |-> FALSE, quit |-> "none"]]

\* The process before main runs.  `steps` is the history of what the
\* orchestrator has done, `status` what became of the process, `code` the
\* exit code of the ExitError, `polled` how the last evloop.poll returned.
OrchNotStarted ==
    [pc |-> "off", efi_mode |-> FALSE, steps |-> <<>>, status |-> "running",
     code |-> 0, polled |-> "none"]

(***************************************************************************)
(* Specification of the loader.                                            *)
(***************************************************************************)
\* ModLoading::new: an empty ledger
\* No command line is being parsed, nothing was logged, no file tree is
\* being deleted.
CmdOff == [status |-> "off"]
FsOff == [status |-> "off"]

PartsOff ==
    /\ cmd = CmdOff
    /\ kmsg = <<>>
    /\ fs = FsOff

LoaderInit ==
    /\ loaded = {}
    /\ loading = <<>>
    /\ mutex = Free
    /\ wgCount = <<>>
    /\ nextWg = 1
    /\ workers = <<>>
    /\ req = [r \in Requests |->
                [pc |-> "idle", modules |-> <<>>,
                 early |-> TRUE, first |-> 0, todo |-> <<>>]]
    /\ syscalls = [m \in Modules |-> 0]
    /\ finitDone = [m \in Modules |-> 0]

\* The loader on its own: the orchestrator and the long-lived threads are
\* not started, the alias table is empty.
Init ==
    /\ cfg \in Configs
    /\ LoaderInit
    /\ sysconf = NoSysconf
    /\ aliases = <<>>
    /\ processed = {}
    /\ acalls = <<>>
    /\ PartsOff
    /\ orch = OrchNotStarted
    /\ threads = NoThreads
    /\ handlers = <<>>
    /\ mainWaker = FALSE

Next ==
    \/ \E r \in Requests : \E modules \in cfg.requests :
          LoadModulesCall(r, modules) /\ UNCHANGED bvars
    \/ \E r \in Requests : LoadModulesLock(r) /\ UNCHANGED bvars
    \/ \E r \in Requests : LoadModulesEnqueue(r) /\ UNCHANGED bvars
    \/ \E r \in Requests : LoadModulesReturn(r) /\ UNCHANGED bvars
    \/ \E r \in Requests : ModWgWait(r) /\ UNCHANGED bvars
    \/ \E w \in Workers : LoadModulePanic(w) /\ UNCHANGED bvars
    \/ \E w \in Workers : LoadModuleDepsWaited(w) /\ UNCHANGED bvars
    \/ \E w \in Workers :
          FinitOk(w) /\ FinitLogged(w, "none") /\ UNCHANGED <<ovars, cmd, fs>>
    \/ \E w \in Workers : \E e \in FinitErrors :
          FinitErr(w, e) /\ FinitLogged(w, e) /\ UNCHANGED <<ovars, cmd, fs>>
    \/ \E w \in Workers : LoadModuleRemove(w) /\ UNCHANGED bvars
    \/ \E w \in Workers : LoadModulePostDeps(w) /\ UNCHANGED bvars
    \/ \E w \in Workers : LoadModuleUnlock(w) /\ UNCHANGED bvars
    \/ \E w \in Workers : LoadModuleReturn(w) /\ UNCHANGED bvars

Spec == Init /\ [][Next]_vars

(***************************************************************************)
(* Vocabulary of the properties.                                           *)
(***************************************************************************)
\* Modules that the configuration orders before m: its pre-dependencies
\* and the modules that list m as a post-dependency.
Before(m) ==
    Range(module_deps(m)) \cup {p \in Modules : m \in Range(module_post_deps(p))}

RECURSIVE BeforeClosure(_)
BeforeClosure(S) ==
    LET T == S \cup UNION {Before(m) : m \in S}
    IN  IF T = S THEN S ELSE BeforeClosure(T)

\* The ordering induced by the configuration has no cycle.
Acyclic == \A m \in Modules : m \notin BeforeClosure(Before(m))

\* The token of request r has been released to its caller: wait() returned.
Released(r) == req[r].pc = "released"

\* load_modules(r) has returned its token.
Returned(r) == req[r].pc \in {"returned", "released"}

(***************************************************************************)
(* C1.  A module is loaded at most once per process lifetime: for an       *)
(* acyclic configuration and any sequential or concurrent requests, the    *)
(* finit_module syscall is issued at most once for each module.            *)
(***************************************************************************)
C1_FinitAtMostOnce ==
    Acyclic => \A m \in Modules : syscalls[m] <= 1

\* Modules of S that load_modules does not skip as built-in.
Loadable(S) == S \ module_builtin

\* S with the transitive pre-dependencies that a request for S submits
\* (the pre-dependencies of a built-in module are not submitted).
RECURSIVE PreClosure(_)
PreClosure(S) ==
    LET T == S \cup Loadable(UNION {Range(module_deps(m)) : m \in S})
    IN  IF T = S THEN S ELSE PreClosure(T)

\* The direct post-dependencies of the modules of S.
PostDeps(S) == Loadable(UNION {Range(module_post_deps(m)) : m \in S})

\* What the token of load_modules(modules) is said to cover: the modules,
\* their transitive pre-dependencies and those modules' post-dependencies.
Covered(modules) ==
    LET P == PreClosure(Loadable(Range(modules)))
    IN  P \cup PostDeps(P)

(***************************************************************************)
(* C2.  The token returned by load_modules(list) is released only after    *)
(* finit has finished for every module of the list, every transitive       *)
(* pre-dependency and every direct post-dependency of those, for every     *)
(* caller, including one whose module was already in `loading`.            *)
(***************************************************************************)
C2_TokenCoversAll ==
    \A r \in Requests :
        Released(r) => \A m \in Covered(req[r].modules) : finitDone[m] >= 1

\* Worker w has entered finit.
FinitStarted(w) == workers[w].pc \notin {"wait", "panicked"}

\* finit of every pre-dependency of w's module has completed.
PreDepsDone(w) ==
    \A d \in Loadable(Range(module_deps(workers[w].module))) : finitDone[d] >= 1

(***************************************************************************)
(* C3 as claimed.  For every module m the loader loads: finit of every     *)
(* pre-dependency of m completes before finit(m) starts, and finit(m)      *)
(* completes before finit of any module of module_post_deps[m] starts.     *)
(***************************************************************************)
C3_OrderAnyPostDep ==
    \A w \in Workers :
        /\ FinitStarted(w) => PreDepsDone(w)
        /\ \A v \in Workers :
              /\ workers[v].module \in Range(module_post_deps(workers[w].module))
              /\ FinitStarted(v)
              => finitDone[workers[w].module] >= 1

(***************************************************************************)
(* C3 as amended.  finit of every pre-dependency of m completes before     *)
(* finit(m) starts, and every load that m's worker submits for its         *)
(* post-dependencies is submitted after finit(m) has completed.            *)
(***************************************************************************)
C3_OrderSubmittedPostDep ==
    \A w \in Workers :
        /\ FinitStarted(w) => PreDepsDone(w)
        /\ workers[w].via = "post"
              => finitDone[workers[workers[w].parent].module] >= 1

\* a's post-dependency x is in finit after d, b, c and a were loaded
C3_Witness ==
    /\ cfg.name = "chain"
    /\ \E w \in Workers :
          /\ workers[w].module = "x"
          /\ workers[w].via = "post"
          /\ workers[w].pc = "finit"
    /\ \A m \in {"a", "b", "c", "d"} : syscalls[m] = 1 /\ finitDone[m] = 1

(***************************************************************************)
(* C4.  Post-dependencies of m are submitted under the token of the        *)
(* request that spawned m's worker: that token is not released until m's   *)
(* worker has returned and every post-dependency of m has finished finit;  *)
(* m itself is removed from `loading` before any post-dependency is        *)
(* submitted.                                                              *)
(***************************************************************************)
C4_PostDepsUnderCallerToken ==
    \A w \in Workers :
        /\ Released(workers[w].root) =>
              /\ workers[w].pc = "done"
              /\ \A x \in PostDeps({workers[w].module}) : finitDone[x] >= 1
        /\ workers[w].pc = "removed" =>
              /\ workers[w].module \notin DOMAIN loading
              /\ \A v \in Workers : workers[v].parent # w \/ workers[v].via # "post"
        /\ workers[w].via = "post" =>
              workers[w].orig_wg = workers[workers[w].parent].orig_wg

\* post-deps {a:[x,y]}: the token of load_modules([a]) is released after a,
\* x and y were each loaded once
C4_Witness ==
    /\ cfg.name = "post"
    /\ req[1].modules = <<"a">>
    /\ Released(1)
    /\ \A m \in {"a", "x", "y"} : syscalls[m] = 1 /\ finitDone[m] = 1
    /\ \E w \in Workers : workers[w].module = "y" /\ workers[w].via = "post"

(***************************************************************************)
(* C5.  Two threads call load_modules([a]) concurrently with no prior      *)
(* state: under every interleaving finit(a) is invoked once and both       *)
(* tokens are released only after that single finit(a) has completed.      *)
(***************************************************************************)
C5_ConcurrentDuplicate ==
    (/\ cfg.name = "post"
     /\ \A r \in Requests :
           IF r <= 2
           THEN req[r].pc # "idle" /\ req[r].modules = <<"a">> /\ req[r].early
           ELSE req[r].pc = "idle")
    => /\ syscalls["a"] <= 1
       /\ \A r \in {1, 2} : Released(r) => finitDone["a"] = 1

(***************************************************************************)
(* C6.  A worker that finished finit(m) successfully has, in one critical  *)
(* section, removed m from `loading` and inserted it into `loaded`: every  *)
(* module whose worker has finished is in `loaded` and not in `loading`.   *)
(***************************************************************************)
C6_FinishedIsLoaded ==
    \A w \in Workers :
        workers[w].pc \in {"removed", "post_deps", "submitted", "unlocked",
                          "done"} =>
            /\ workers[w].module \in loaded
            /\ workers[w].module \notin DOMAIN loading

\* Worker w is loading its module: spawned, and not yet past the removal.
Active(w) == workers[w].pc \in {"wait", "finit", "finit_ok"}

\* Worker w failed in finit and has returned.
Failed(w) == workers[w].pc = "failed"

\* Worker w panicked before it waited for its pre-dependencies.
Panicked(w) == workers[w].pc = "panicked"

(***************************************************************************)
(* C7 as claimed.  A module is a key of `loading` iff at least one worker  *)
(* is actively loading it (read whenever the ledger can be locked).        *)
(***************************************************************************)
C7_LoadingIffActive ==
    mutex = Free =>
        \A m \in Modules :
            m \in DOMAIN loading <=> \E w \in Workers :
                workers[w].module = m /\ Active(w)

\* What the thread that holds the mutex still has to do in
\* load_modules_unlocked.
HolderTodo ==
    IF \E r \in Requests : mutex = Caller(r)
    THEN req[CHOOSE r \in Requests : mutex = Caller(r)].todo
    ELSE IF \E w \in Workers : mutex = Worker(w)
    THEN workers[CHOOSE w \in Workers : mutex = Worker(w)].todo
    ELSE <<>>

\* The workers that the holder of the mutex has yet to spawn for module m:
\* m is queued and the recursion into its pre-dependencies has not returned.
SpawnPending(m) ==
    {i \in DOMAIN HolderTodo :
        HolderTodo[i].op = "spawn" /\ HolderTodo[i].module = m}

(***************************************************************************)
(* C7 as amended.  A module is a key of `loading` iff exactly one worker   *)
(* for it has not removed it: a worker that is actively loading it, one    *)
(* that has ended and left the key, because its finit failed or because    *)
(* it panicked before it waited for its pre-dependencies, or one that the  *)
(* thread that queued the module is about to spawn in the same critical    *)
(* section.                                                                *)
(***************************************************************************)
C7_LoadingIffNotRemoved ==
    \A m \in Modules :
        LET holders == {w \in Workers :
                          /\ workers[w].module = m
                          /\ Active(w) \/ Failed(w) \/ Panicked(w)}
            n == Cardinality(holders) + Cardinality(SpawnPending(m))
        IN  /\ m \in DOMAIN loading <=> n >= 1
            /\ n <= 1

\* Four keys of `loading`, one of each kind: a module whose worker is in
\* finit, one whose worker failed in finit, one whose worker panicked, and
\* one that is queued with its worker yet to be spawned
C7_Witness ==
    /\ \E w \in Workers :
          workers[w].pc = "finit" /\ workers[w].module \in DOMAIN loading
    /\ \E w \in Workers : Failed(w) /\ workers[w].module \in DOMAIN loading
    /\ \E w \in Workers : Panicked(w) /\ workers[w].module \in DOMAIN loading
    /\ \E m \in DOMAIN loading : SpawnPending(m) # {}

\* The modules of a request that load_modules must skip.
SkipSet == loaded \cup module_builtin

\* The next thing to do in load_modules_unlocked is the iteration of a
\* module that load_modules must skip.
SkipsNext(todo) ==
    todo # <<>> /\ Head(todo).op = "visit" /\ Head(todo).module \in SkipSet

\* One step of the loader treats loaded and built-in modules as absent: it
\* queues and spawns none, the iteration of one changes nothing and goes on
\* to the next module without a call for its pre-dependencies, and a call
\* on a list of only such modules returns with the token held by nobody.
C8_SkipStep ==
    /\ \A m \in DOMAIN loading' \ DOMAIN loading : m \notin SkipSet
    /\ \A w \in DOMAIN workers' \ DOMAIN workers :
          workers'[w].module \notin SkipSet
    /\ \A r \in Requests :
          req[r].pc = "locked" /\ req'[r] # req[r] =>
              /\ SkipsNext(req[r].todo) =>
                    /\ loading' = loading
                    /\ workers' = workers
                    /\ wgCount' = wgCount
                    /\ req'[r].todo = Tail(req[r].todo)
              /\ req'[r].pc = "enqueued"
                    /\ Range(req[r].modules) \subseteq SkipSet =>
                    /\ wgCount'[ReqWg(r)] = 1
                    /\ \A m \in DOMAIN loading' :
                          ReqWg(r) \notin Range(loading'[m])
                    /\ \A w \in DOMAIN workers' : workers'[w].root # r
    /\ \A w \in Workers :
          mutex = Worker(w) /\ SkipsNext(workers[w].todo)
                /\ workers'[w] # workers[w] =>
              /\ loading' = loading
              /\ DOMAIN workers' = DOMAIN workers
              /\ wgCount' = wgCount
              /\ workers'[w].todo = Tail(workers[w].todo)

(***************************************************************************)
(* C8.  A module that is in `loaded` or listed in module_builtin is        *)
(* skipped by load_modules: no worker is spawned for it, no `loading`      *)
(* entry is created, its pre-dependencies are not submitted and it adds    *)
(* nothing to the caller's token; a request of only such modules returns   *)
(* a token that is released at once.                                       *)
(***************************************************************************)
C8_SkipLoadedOrBuiltin == [][C8_SkipStep]_vars

\* load_modules([k, a]) with k built-in (k has dependencies of its own)
\* has returned: only a was submitted; load_modules([k]) returned a token
\* nothing holds
C8_Witness ==
    /\ cfg.name = "builtin"
    /\ req[1].modules = <<"k", "a">> /\ req[1].pc = "returned"
    /\ req[2].modules = <<"k">> /\ req[2].pc = "returned"
    /\ wgCount[ReqWg(2)] = 1
    /\ DOMAIN loading = {"a"}
    /\ \A w \in Workers : workers[w].module = "a"

\* Worker w was spawned in the critical section that is open now.
InOpenSection(w) ==
    \/ \E r \in Requests : mutex = Caller(r) /\ w >= req[r].first
    \/ \E v \in Workers : mutex = Worker(v) /\ w >= workers[v].first

(***************************************************************************)
(* C9.  No finit call and no wait on a WaitGroup is performed while the    *)
(* ledger mutex is held: the thread that holds the mutex is enqueueing in  *)
(* load_modules, or is a worker between its removal and the end of its     *)
(* post-dependency submission, and can always go on to release it; and no  *)
(* worker has entered finit while the critical section that spawned it is  *)
(* still open (the lock is released before the worker runs).               *)
(***************************************************************************)
C9_NoBlockingUnderLock ==
    /\ \A w \in Workers :
          /\ workers[w].pc \in {"wait", "finit"} => mutex # Worker(w)
          /\ mutex = Worker(w) =>
                \/ /\ workers[w].pc \in {"removed", "post_deps"}
                   /\ ENABLED LoadModulePostDeps(w)
                \/ workers[w].pc = "submitted" /\ ENABLED LoadModuleUnlock(w)
          /\ InOpenSection(w) => ~FinitStarted(w)
    /\ \A r \in Requests :
          /\ req[r].pc \in {"called", "returned"} => mutex # Caller(r)
          /\ mutex = Caller(r) =>
                \/ req[r].pc = "locked" /\ ENABLED LoadModulesEnqueue(r)
                \/ req[r].pc = "enqueued" /\ ENABLED LoadModulesReturn(r)
    /\ mutex = Free \/ (\E w \in Workers : mutex = Worker(w))
                    \/ (\E r \in Requests : mutex = Caller(r))

\* The clones queued in `loading`.
Queued(m) == Range(loading[m])

\* The tokens that a failed worker keeps from being released: those queued
\* on the failed module, and, for every worker whose deps_wg is among them
\* (it cannot leave deps_wg.wait(), if it has not ended before it), the
\* tokens queued on its module and its orig_wg.
BlockedStep(T) ==
    T \cup UNION {Queued(workers[v].module) \cup {workers[v].orig_wg} :
                    v \in {u \in Workers :
                              /\ DepsWg(u) \in T
                              /\ workers[u].pc \in {"wait", "panicked"}
                              /\ workers[u].module \in DOMAIN loading}}

RECURSIVE BlockedBy(_)
BlockedBy(T) ==
    UNION {IF U = T THEN T ELSE BlockedBy(U) : U \in {BlockedStep(T)}}

Blocked ==
    BlockedBy(UNION {Queued(workers[w].module) :
                        w \in {u \in Workers : Failed(u)}})

\* Token t has been released to its waiter.
TokenReleased(t) ==
    \/ \E r \in Requests : t = ReqWg(r) /\ Released(r)
    \/ \E v \in Workers : t = DepsWg(v) /\ FinitStarted(v)

\* s is a prefix of t.
IsPrefix(s, t) == Len(s) <= Len(t) /\ \A i \in 1..Len(s) : s[i] = t[i]

C10_FailedState ==
    /\ \A w \in Workers : Failed(w) => workers[w].module \in DOMAIN loading
    /\ \A t \in Blocked : ~TokenReleased(t) /\ wgCount[t] >= 1

C10_FailedStep ==
    /\ Blocked \subseteq Blocked'
    /\ \A w \in Workers : Failed(w) =>
          /\ workers'[w] = workers[w]
          /\ workers[w].module \in DOMAIN loading'
          /\ IsPrefix(loading[workers[w].module], loading'[workers[w].module])
          /\ \A v \in DOMAIN workers' \ DOMAIN workers :
                workers'[v].module # workers[w].module

(***************************************************************************)
(* C10.  A worker whose finit fails (open, parameter string, nonzero       *)
(* finit_module) releases no token queued on its module m: every caller    *)
(* waiting on m, directly or through a module that has m as a transitive   *)
(* pre-dependency, stays blocked forever; m stays in `loading`, a later    *)
(* request for m only appends its token and m is never retried.            *)
(***************************************************************************)
C10_FailureBlocksForever == []C10_FailedState /\ [][C10_FailedStep]_vars

\* d failed for each of the three reasons in turn is covered by FinitErrors;
\* here d failed to open: the caller of load_modules([a]) (a needs b, b
\* needs d) and a later caller of load_modules([b]) are both blocked
C10_Witness ==
    /\ cfg.name = "chain"
    /\ req[1].modules = <<"a">> /\ req[1].pc = "returned"
    /\ req[2].modules = <<"b">> /\ req[2].pc = "returned"
    /\ \E w \in Workers :
          /\ workers[w].module = "d" /\ Failed(w) /\ workers[w].err = "open"
    /\ {ReqWg(1), ReqWg(2)} \subseteq Blocked
    /\ finitDone["c"] = 1
    /\ loading["b"] = <<DepsWg(1), ReqWg(2)>>

(***************************************************************************)
(* The orchestrator: main and init (src/src/main.rs).                      *)
(*                                                                         *)
(* Startup is a fixed list of fallible calls; each carries the exit code   *)
(* its `.bail(n)` attaches.  The first two run in main and leave through   *)
(* unwrap_or_eprint_exit; the others run in init, whose Err sends main     *)
(* through the emergency-shell path.                                       *)
(***************************************************************************)
Startup ==
    << [name |-> "initial_sanity_check",    code |-> 1],
       [name |-> "initialize_kcon",         code |-> 2],
       [name |-> "mount_sysfs",             code |-> 3],
       [name |-> "mount_proc",              code |-> 3],
       [name |-> "mount_run",               code |-> 3],
       [name |-> "mount_efivarfs",          code |-> 3],
       [name |-> "config",                  code |-> 4],
       [name |-> "kernel_ver_check",        code |-> 5],
       [name |-> "aliases",                 code |-> 6],
       [name |-> "make_shutdown_pivot_dir", code |-> 7],
       [name |-> "cmdline",                 code |-> 8],
       [name |-> "poll_new",                code |-> 9],
       [name |-> "waker_new",               code |-> 9],
       [name |-> "udev_listen",             code |-> 10],
       [name |-> "load_modules",            code |-> 11],
       [name |-> "setup_vconsole",          code |-> 12],
       [name |-> "sysfs_walk_modalias",     code |-> 13],
       [name |-> "sysfs_walk_block",        code |-> 13],
       [name |-> "poll",                    code |-> 14],
       [name |-> "udev_stop_wake",          code |-> 0],
       [name |-> "udev_stop_join",          code |-> 0],
       [name |-> "block_stop_wake",         code |-> 0],
       [name |-> "block_stop_join",         code |-> 0],
       [name |-> "modalias_stop_wake",      code |-> 0],
       [name |-> "modalias_stop_join",      code |-> 0],
       [name |-> "mod_loaded_wait",         code |-> 0],
       [name |-> "execv",                   code |-> 101] >>

StageNames == {Startup[i].name : i \in 1..Len(Startup)}

StageIndex(name) == CHOOSE i \in 1..Len(Startup) : Startup[i].name = name

\* The exit code `.bail(n)` attaches to a failure of the stage.
BailCode(name) == Startup[StageIndex(name)].code

\* The calls made from main before init; they leave through
\* unwrap_or_eprint_exit.
InMain == {"initial_sanity_check", "initialize_kcon"}

\* Calls that only return a Result; the others start threads, call the
\* loader or block, and have actions of their own.
PlainStages ==
    {"initial_sanity_check", "initialize_kcon", "mount_sysfs", "mount_proc",
     "mount_run", "mount_efivarfs", "config", "kernel_ver_check", "aliases",
     "make_shutdown_pivot_dir", "cmdline", "poll_new", "waker_new",
     "setup_vconsole"}

\* The stage that follows `name` when it succeeds: efivarfs is mounted only
\* in EFI mode.
StageAfter(o, name) ==
    LET n == Startup[StageIndex(name) + 1].name
    IN  IF n = "mount_efivarfs" /\ ~o.efi_mode
        THEN Startup[StageIndex(name) + 2].name
        ELSE n

\* The orchestrator after the stage it is in has succeeded.
Advance(o) ==
    [o EXCEPT !.steps = Append(@, o.pc), !.pc = StageAfter(o, o.pc)]

\* The orchestrator after the stage it is in has failed: a failure in main
\* exits at once, a failure in init returns the ExitError to main.
Bail(o) ==
    IF o.pc \in InMain
    THEN [o EXCEPT !.pc = "exited", !.status = "exited",
                   !.code = BailCode(o.pc),
                   !.steps = Append(@, "exit")]
    ELSE [o EXCEPT !.pc = "kcrit", !.code = BailCode(o.pc)]

\* The request of the orchestrator: load_modules(module_force).
ForceReq == 1

\* `?` returns from init: its locals are dropped, among them mod_loaded
\* once load_modules has returned it (and udev and sysfs, whose threads are
\* neither woken nor joined).
InitLocalsDropped ==
    /\ IF req[ForceReq].pc = "returned"
       THEN /\ wgCount' = WgDrop(wgCount, ReqWg(ForceReq))
            /\ req' = [req EXCEPT ![ForceReq].pc = "dropped"]
       ELSE UNCHANGED <<wgCount, req>>
    /\ UNCHANGED <<cfg, loaded, loading, mutex, nextWg, workers, syscalls,
                   finitDone>>

\* A plain startup call returns Ok
StageOk ==
    /\ orch.pc \in PlainStages
    /\ orch' = Advance(orch)
    /\ UNCHANGED <<lvars, sysconf, aliases, processed, acalls, threads,
                   handlers, mainWaker, pvars>>

\* A plain startup call returns Err
StageErr ==
    /\ orch.pc \in PlainStages
    /\ orch' = Bail(orch)
    /\ InitLocalsDropped
    /\ UNCHANGED <<sysconf, aliases, processed, acalls, threads, handlers,
                   mainWaker, pvars>>

\* The startup calls that can panic: the command-line parser (todo!() in
\* the luks options and in the partition lookup, an out-of-range slice of a
\* short EFI variable) and the console setup (an out-of-range slice of a
\* short keymap).
PanicStages == {"cmdline", "setup_vconsole"}

\* A startup call panics on the main thread: init unwinds, dropping its
\* locals, and the process ends with status 101 at once; nothing is logged
\* to kmsg, no shell is tried, nothing is synced
StagePanic ==
    /\ orch.pc \in PanicStages
    /\ orch' = [orch EXCEPT !.pc = "exited", !.status = "exited",
                            !.code = 101,
                            !.steps = Append(@, "panic")]
    /\ InitLocalsDropped
    /\ UNCHANGED <<sysconf, aliases, processed, acalls, threads, handlers,
                   mainWaker, pvars>>

(***************************************************************************)
(* main's handling of init's Err: log it, try the emergency shell, sync,   *)
(* exit.                                                                   *)
(***************************************************************************)
\* What main does between init's Err and the exit, in order.
FatalPath == <<"kcrit", "busybox", "toybox", "sync", "exit">>

\* The step of the fatal path after `pc`.
FatalAfter(pc) ==
    FatalPath[(CHOOSE i \in 1..Len(FatalPath) : FatalPath[i] = pc) + 1]

\* kcrit!(kcon, "{}", &e); sync()
MainFatalStep ==
    /\ orch.pc \in {"kcrit", "sync"}
    /\ orch' = [orch EXCEPT !.steps = Append(@, orch.pc),
                            !.pc = FatalAfter(orch.pc)]
    /\ UNCHANGED <<lvars, sysconf, aliases, processed, acalls, threads,
                   handlers, mainWaker, pvars>>

\* spawn_emergency_shell: execv of /bin/busybox, then of /bin/toybox.  An
\* execv that succeeds replaces the process; one that fails is logged.
SpawnEmergencyShell(spawned) ==
    /\ orch.pc \in {"busybox", "toybox"}
    /\ orch' = IF spawned
               THEN [orch EXCEPT !.steps = Append(@, orch.pc),
                                 !.pc = "shell", !.status = "shell"]
               ELSE [orch EXCEPT !.steps = Append(@, orch.pc),
                                 !.pc = FatalAfter(orch.pc)]
    /\ UNCHANGED <<lvars, sysconf, aliases, processed, acalls, threads,
                   handlers, mainWaker, pvars>>

\* e.eprint_and_exit()
MainExit ==
    /\ orch.pc = "exit"
    /\ orch' = [orch EXCEPT !.steps = Append(@, "exit"), !.pc = "exited",
                            !.status = "exited"]
    /\ UNCHANGED <<lvars, sysconf, aliases, processed, acalls, threads,
                   handlers, mainWaker, pvars>>

(***************************************************************************)
(* The udev listener thread (src/src/udev.rs) and its per-uevent handlers. *)
(***************************************************************************)
\* Number of netlink packets the listener decodes as uevents.
MaxUevents == 2

\* Decoded uevents: action, subsystem, and whether env has MODALIAS.
UEvents ==
    { [dev |-> "usb1",    action |-> "add",    subsystem |-> "usb",
       modalias |-> TRUE],
      [dev |-> "sda",     action |-> "add",    subsystem |-> "block",
       modalias |-> FALSE],
      [dev |-> "mmcblk0", action |-> "add",    subsystem |-> "block",
       modalias |-> TRUE],
      [dev |-> "eth0",    action |-> "add",    subsystem |-> "net",
       modalias |-> FALSE],
      [dev |-> "hidraw0", action |-> "add",    subsystem |-> "hidraw",
       modalias |-> FALSE],
      [dev |-> "hidraw0", action |-> "remove", subsystem |-> "hidraw",
       modalias |-> FALSE] }

\* handle_uevent: the handler a uevent is routed to.
Dispatch(uevent) ==
    IF uevent.modalias THEN "load_modalias"
    ELSE IF uevent.subsystem = "block" THEN "block_device"
    ELSE IF uevent.subsystem = "net" THEN "network"
    ELSE IF uevent.subsystem = "hidraw" /\ uevent.action = "add"
         THEN "hidraw"
    ELSE "dropped"

\* Mutant: join() returns without waiting for the thread.
Terminated_NoWait(t) == TRUE

\* A thread that has terminated, by returning or by a panic.
Terminated(t) == threads[t].state \in {"exited", "panicked"}

\* UdevListener::listen returns Ok: the thread has created its event loop
\* and waker and sent the waker; it goes on to set up the netlink socket.
UdevListenOk ==
    /\ orch.pc = "udev_listen"
    /\ threads' = [threads EXCEPT !["udev"].state = "setup"]
    /\ orch' = Advance(orch)
    /\ UNCHANGED <<lvars, sysconf, aliases, processed, acalls, handlers,
                   mainWaker, pvars>>

\* UdevListener::listen returns Err: the thread sent the error of Poll::new
\* or Waker::new and returned, or it panicked before it sent anything (the
\* unwrap of KConsole::new) and recv() found the channel closed.
UdevListenErr(panicked) ==
    /\ orch.pc = "udev_listen"
    /\ threads' = [threads EXCEPT
                     !["udev"].state = IF panicked THEN "panicked"
                                       ELSE "exited"]
    /\ orch' = Bail(orch)
    /\ UNCHANGED <<lvars, sysconf, aliases, processed, acalls, handlers,
                   mainWaker, pvars>>

\* Socket::new, set_non_blocking, bind, register: each is unwrapped
UdevSocketSetup(ok) ==
    /\ threads["udev"].state = "setup"
    /\ threads' = [threads EXCEPT
                     !["udev"].state = IF ok THEN "polling" ELSE "panicked"]
    /\ UNCHANGED <<lvars, sysconf, aliases, processed, acalls, orch, handlers,
                   mainWaker, pvars>>

\* What a readable netlink socket yields.
RecvOutcomes == {"eof", "recv_error", "undecodable"}

\* An event with UDEV_THREAD_UEVENT_NL_TOKEN whose packet is not a uevent:
\* UnexpectedEof and an undecodable packet set quit_thread, any other recv
\* error is unwrapped.
UdevRecvFails(outcome) ==
    /\ threads["udev"].state = "polling"
    /\ threads' = [threads EXCEPT
                     !["udev"].state = IF outcome = "recv_error"
                                       THEN "panicked" ELSE "exited",
                     !["udev"].quit = IF outcome = "recv_error"
                                      THEN @ ELSE outcome]
    /\ UNCHANGED <<lvars, sysconf, aliases, processed, acalls, orch, handlers,
                   mainWaker, pvars>>

\* Mutant: the listener handles a uevent only once the handlers of the
\* earlier ones have ended.
UdevRecvUevent_Joined(uevent) ==
    /\ threads["udev"].state = "polling"
    /\ Len(handlers) < MaxUevents
    /\ \A h \in DOMAIN handlers : handlers[h].state # "spawned"
    /\ handlers' = Append(handlers, [uevent |-> uevent, state |-> "spawned",
                                     handler |-> "none"])
    /\ UNCHANGED <<lvars, sysconf, aliases, processed, acalls, orch, threads,
                   mainWaker, pvars>>

\* An event with UDEV_THREAD_UEVENT_NL_TOKEN that decodes as a uevent: a
\* thread is spawned for it and the listener goes on.
UdevRecvUevent(uevent) ==
    /\ threads["udev"].state = "polling"
    /\ Len(handlers) < MaxUevents
    /\ handlers' = Append(handlers, [uevent |-> uevent, state |-> "spawned",
                                     handler |-> "none"])
    /\ UNCHANGED <<lvars, sysconf, aliases, processed, acalls, orch, threads,
                   mainWaker, pvars>>

\* An event with UDEV_THREAD_WAKE_TOKEN: return
UdevWoken ==
    /\ threads["udev"].state = "polling"
    /\ threads["udev"].woken
    /\ threads' = [threads EXCEPT !["udev"].state = "exited",
                                  !["udev"].woken = FALSE,
                                  !["udev"].quit = "woken"]
    /\ UNCHANGED <<lvars, sysconf, aliases, processed, acalls, orch, handlers,
                   mainWaker, pvars>>

\* How handle_uevent ends for a uevent: KConsole::new().unwrap() panics
\* when /dev/kmsg cannot be opened (`kcon` is whether it was); every
\* handler is todo!(), which panics; a uevent no branch takes returns.
HandlerEnd(uevent, kcon) ==
    IF ~kcon THEN "panicked"
    ELSE IF Dispatch(uevent) = "dropped" THEN "returned" ELSE "panicked"

\* handle_uevent runs in its own thread: `handler` is the branch it took,
\* none if it panicked before it looked at the uevent.
HandleUevent(h, kcon) ==
    /\ handlers[h].state = "spawned"
    /\ handlers' = [handlers EXCEPT
                      ![h].handler = IF kcon
                                     THEN Dispatch(handlers[h].uevent)
                                     ELSE "none",
                      ![h].state = HandlerEnd(handlers[h].uevent, kcon)]
    /\ UNCHANGED <<lvars, sysconf, aliases, processed, acalls, orch, threads,
                   mainWaker, pvars>>

(***************************************************************************)
(* The sysfs threads (src/src/sysfs.rs).  modalias::spawn and              *)
(* walker::spawn are todo!(): the thread panics, its Sender is dropped and *)
(* SysfsWalker::walk returns Err.  The thread that SysfsWalker::walk       *)
(* expects (one that sends its waker, then runs until woken) is the one    *)
(* the design describes.                                                   *)
(***************************************************************************)
\* The thread SysfsWalker::walk starts at the stage.
SysfsThread(pc) ==
    IF pc = "sysfs_walk_modalias" THEN "sysfs-modalias" ELSE "sysfs-walker"

\* The thread panics at todo!(); rx.recv() fails and walk returns Err
SysfsWalkErr ==
    /\ orch.pc \in {"sysfs_walk_modalias", "sysfs_walk_block"}
    /\ threads' = [threads EXCEPT ![SysfsThread(orch.pc)].state = "panicked"]
    /\ orch' = Bail(orch)
    /\ InitLocalsDropped
    /\ UNCHANGED <<sysconf, aliases, processed, acalls, handlers, mainWaker,
                   pvars>>

\* The thread sends its waker; rx.recv() returns it
SysfsWalkOk ==
    /\ orch.pc \in {"sysfs_walk_modalias", "sysfs_walk_block"}
    /\ threads' = [threads EXCEPT ![SysfsThread(orch.pc)].state = "polling"]
    /\ orch' = Advance(orch)
    /\ UNCHANGED <<lvars, sysconf, aliases, processed, acalls, handlers,
                   mainWaker, pvars>>

\* A sysfs thread sees its waker's event and returns
SysfsWoken(t) ==
    /\ t \in {"sysfs-modalias", "sysfs-walker"}
    /\ threads[t].state = "polling"
    /\ threads[t].woken
    /\ threads' = [threads EXCEPT ![t].state = "exited", ![t].woken = FALSE]
    /\ UNCHANGED <<lvars, sysconf, aliases, processed, acalls, orch, handlers,
                   mainWaker, pvars>>

\* The root filesystem has been mounted at /system_root: the thread that
\* mounted it wakes the main event loop.
RootMounted ==
    /\ \E t \in ThreadNames : threads[t].state = "polling"
    /\ ~mainWaker
    /\ orch.status = "running"
    /\ orch.polled # "woken"
    /\ mainWaker' = TRUE
    /\ UNCHANGED <<lvars, sysconf, aliases, processed, acalls, orch, threads,
                   handlers, pvars>>

(***************************************************************************)
(* The Listening loop, the stop of the threads, the wait on the            *)
(* module_force token and the execv (main.rs:359-396).                     *)
(***************************************************************************)
\* IgnitedConfig::get_mount_timeout
get_mount_timeout(sc) ==
    IF sc.mount_timeout.some /\ sc.mount_timeout.val > 0
    THEN sc.mount_timeout
    ELSE None

\* evloop.poll returns Ok with an event that bears the main-waker token:
\* break 'main
PollWoken ==
    /\ orch.pc = "poll"
    /\ mainWaker
    /\ mainWaker' = FALSE
    /\ orch' = [Advance(orch) EXCEPT !.polled = "woken"]
    /\ UNCHANGED <<lvars, sysconf, aliases, processed, acalls, threads,
                   handlers, pvars>>

\* evloop.poll returns Ok with no event after the timeout has elapsed: the
\* `for` finds no token and the loop polls again
PollTimeout ==
    /\ orch.pc = "poll"
    /\ get_mount_timeout(sysconf).some
    /\ ~mainWaker
    /\ orch' = [orch EXCEPT !.polled = "expired"]
    /\ UNCHANGED <<lvars, sysconf, aliases, processed, acalls, threads,
                   handlers, mainWaker, pvars>>

\* Mutant: an interrupted poll is treated like any other poll error.
PollInterrupted_Fatal ==
    /\ orch.pc = "poll"
    /\ orch' = [Bail(orch) EXCEPT !.polled = "interrupted"]
    /\ InitLocalsDropped
    /\ UNCHANGED <<sysconf, aliases, processed, acalls, threads, handlers,
                   mainWaker, pvars>>

\* evloop.poll returns Err(Interrupted): continue
PollInterrupted ==
    /\ orch.pc = "poll"
    /\ orch' = [orch EXCEPT !.polled = "interrupted"]
    /\ UNCHANGED <<lvars, sysconf, aliases, processed, acalls, threads,
                   handlers, mainWaker, pvars>>

\* evloop.poll returns any other Err: bail(14)
PollErr ==
    /\ orch.pc = "poll"
    /\ orch' = [Bail(orch) EXCEPT !.polled = "error"]
    /\ InitLocalsDropped
    /\ UNCHANGED <<sysconf, aliases, processed, acalls, threads, handlers,
                   mainWaker, pvars>>

\* The thread a stage of udev.stop / sysfs.stop acts on: udev first, then
\* block_t, then modaliases_t.
StopThread(pc) ==
    IF pc \in {"udev_stop_wake", "udev_stop_join"} THEN "udev"
    ELSE IF pc \in {"block_stop_wake", "block_stop_join"} THEN "sysfs-walker"
    ELSE "sysfs-modalias"

\* ThreadHandle::join_now: self.waker_t.wake(); an Err is logged and the
\* join follows all the same
JoinNowWake(ok) ==
    /\ orch.pc \in {"udev_stop_wake", "block_stop_wake", "modalias_stop_wake"}
    /\ LET t == StopThread(orch.pc)
       IN  threads' = [threads EXCEPT
                         ![t].woken = ok /\ ~Terminated(t),
                         ![t].wakes = @ + 1]
    /\ orch' = Advance(orch)
    /\ UNCHANGED <<lvars, sysconf, aliases, processed, acalls, handlers,
                   mainWaker, pvars>>

\* ThreadHandle::join_now: self.join_t.join() returns once the thread has
\* terminated
JoinNowJoin ==
    /\ orch.pc \in {"udev_stop_join", "block_stop_join", "modalias_stop_join"}
    /\ Terminated(StopThread(orch.pc))
    /\ threads' = [threads EXCEPT ![StopThread(orch.pc)].joined = TRUE]
    /\ orch' = Advance(orch)
    /\ UNCHANGED <<lvars, sysconf, aliases, processed, acalls, handlers,
                   mainWaker, pvars>>

\* mod_loading.load_modules(config.sysconf().get_force_modules()) is entered
ForceLoadCall ==
    /\ orch.pc = "load_modules"
    /\ LoadModulesCall(ForceReq, sysconf.module_force)
    /\ UNCHANGED bvars

\* load_modules takes the ledger mutex
ForceLoadLock ==
    /\ orch.pc = "load_modules"
    /\ LoadModulesLock(ForceReq)
    /\ UNCHANGED bvars

\* load_modules_unlocked queues module_force and spawns the workers, one
\* step at a time
ForceLoadEnqueue ==
    /\ orch.pc = "load_modules"
    /\ LoadModulesEnqueue(ForceReq)
    /\ UNCHANGED bvars

\* load_modules returns the token: the orchestrator goes on without waiting
ForceLoadReturn ==
    /\ orch.pc = "load_modules"
    /\ LoadModulesReturn(ForceReq)
    /\ orch' = Advance(orch)
    /\ UNCHANGED <<sysconf, aliases, processed, acalls, threads, handlers,
                   mainWaker, pvars>>

\* mod_loaded.wait() returns
ModLoadedWait ==
    /\ orch.pc = "mod_loaded_wait"
    /\ ModWgWait(ForceReq)
    /\ orch' = Advance(orch)
    /\ UNCHANGED <<sysconf, aliases, processed, acalls, threads, handlers,
                   mainWaker, pvars>>

\* execv(args.init(), ..) succeeds: the process is now the target init
ExecvOk ==
    /\ orch.pc = "execv"
    /\ orch' = [orch EXCEPT !.steps = Append(@, "execv"), !.pc = "init",
                            !.status = "init"]
    /\ UNCHANGED <<lvars, sysconf, aliases, processed, acalls, threads,
                   handlers, mainWaker, pvars>>

\* execv returns: bail(101)
ExecvErr ==
    /\ orch.pc = "execv"
    /\ orch' = Bail(orch)
    /\ UNCHANGED <<lvars, sysconf, aliases, processed, acalls, threads,
                   handlers, mainWaker, pvars>>

(***************************************************************************)
(* Specification of the boot: the orchestrator, the long-lived threads,    *)
(* the uevent handlers and the loader serving load_modules(module_force).  *)
(***************************************************************************)
\* engine.toml: [metadata] and [ignited]
BootConfigs ==
    { [metadata |-> CfgChain,
       sysconf  |-> [module_force |-> <<"a">>, mount_timeout |-> Some(2)]],
      [metadata |-> CfgPost,
       sysconf  |-> [module_force |-> <<"a">>, mount_timeout |-> None]],
      [metadata |-> CfgBuiltin,
       sysconf  |-> [module_force |-> <<"k">>, mount_timeout |-> Some(0)]],
      [metadata |-> CfgPost,
       sysconf  |-> [module_force |-> <<>>, mount_timeout |-> Some(-1)]] }

\* The process is running: no exit, no successful execv.
Alive == orch.status = "running"

BootInit ==
    /\ \E c \in BootConfigs : cfg = c.metadata /\ sysconf = c.sysconf
    /\ LoaderInit
    /\ aliases = <<>>
    /\ processed = {}
    /\ acalls = <<>>
    /\ PartsOff
    /\ \E efi \in BOOLEAN :
          orch = [OrchNotStarted EXCEPT !.pc = Startup[1].name,
                                        !.efi_mode = efi]
    /\ threads = NoThreads
    /\ handlers = <<>>
    /\ mainWaker = FALSE

\* The orchestrator and the long-lived threads
OrchNext ==
    \/ StageOk
    \/ StageErr
    \/ StagePanic
    \/ MainFatalStep
    \/ \E spawned \in BOOLEAN : SpawnEmergencyShell(spawned)
    \/ MainExit
    \/ UdevListenOk
    \/ \E panicked \in BOOLEAN : UdevListenErr(panicked)
    \/ \E ok \in BOOLEAN : Alive /\ UdevSocketSetup(ok)
    \/ \E outcome \in RecvOutcomes : Alive /\ UdevRecvFails(outcome)
    \/ Alive /\ UdevWoken
    \/ SysfsWalkOk
    \/ SysfsWalkErr
    \/ \E t \in ThreadNames : Alive /\ SysfsWoken(t)
    \/ RootMounted
    \/ PollWoken
    \/ PollTimeout
    \/ PollInterrupted
    \/ PollErr
    \/ \E ok \in BOOLEAN : JoinNowWake(ok)
    \/ JoinNowJoin
    \/ ForceLoadCall
    \/ ForceLoadLock
    \/ ForceLoadEnqueue
    \/ ForceLoadReturn
    \/ ModLoadedWait
    \/ ExecvOk
    \/ ExecvErr

\* No device appears during the boot: the listener decodes no uevent.
BootNext ==
    \/ OrchNext
    \/ \E w \in Workers : Alive /\ LoadModulePanic(w) /\ UNCHANGED bvars
    \/ \E w \in Workers : Alive /\ LoadModuleDepsWaited(w) /\ UNCHANGED bvars
    \/ \E w \in Workers :
          /\ Alive /\ FinitOk(w) /\ FinitLogged(w, "none")
          /\ UNCHANGED <<ovars, cmd, fs>>
    \/ \E w \in Workers : \E e \in FinitErrors :
          /\ Alive /\ FinitErr(w, e) /\ FinitLogged(w, e)
          /\ UNCHANGED <<ovars, cmd, fs>>
    \/ \E w \in Workers : Alive /\ LoadModuleRemove(w) /\ UNCHANGED bvars
    \/ \E w \in Workers : Alive /\ LoadModulePostDeps(w) /\ UNCHANGED bvars
    \/ \E w \in Workers : Alive /\ LoadModuleUnlock(w) /\ UNCHANGED bvars
    \/ \E w \in Workers : Alive /\ LoadModuleReturn(w) /\ UNCHANGED bvars

SpecBoot == BootInit /\ [][BootNext]_vars

(***************************************************************************)
(* Specification of the boot with devices appearing: the listener decodes  *)
(* uevents and spawns their handlers; no module is forced.                 *)
(***************************************************************************)
UdevConfigs ==
    { [metadata |-> CfgPost,
       sysconf  |-> [module_force |-> <<>>, mount_timeout |-> Some(2)]] }

UdevInit ==
    /\ \E c \in UdevConfigs : cfg = c.metadata /\ sysconf = c.sysconf
    /\ LoaderInit
    /\ aliases = <<>>
    /\ processed = {}
    /\ acalls = <<>>
    /\ PartsOff
    /\ orch = [OrchNotStarted EXCEPT !.pc = Startup[1].name]
    /\ threads = NoThreads
    /\ handlers = <<>>
    /\ mainWaker = FALSE

UdevNext ==
    \/ OrchNext
    \/ \E uevent \in UEvents : Alive /\ UdevRecvUevent(uevent)
    \/ \E h \in DOMAIN handlers : \E kcon \in BOOLEAN :
          Alive /\ HandleUevent(h, kcon)

SpecUdev == UdevInit /\ [][UdevNext]_vars

(***************************************************************************)
(* Vocabulary of the orchestrator's properties.                            *)
(***************************************************************************)
\* The orchestrator has done `step`.
Did(step) == step \in Range(orch.steps)

\* The place of the first `step` in the history (0 if it was never done).
StepIndex(step) ==
    IF Did(step)
    THEN CHOOSE i \in 1..Len(orch.steps) :
            /\ orch.steps[i] = step
            /\ \A j \in 1..(i - 1) : orch.steps[j] # step
    ELSE 0

\* `first` was done, and before `then`.
DoneBefore(first, then) ==
    Did(first) /\ StepIndex(first) < StepIndex(then)

\* execv has replaced the process by the target init.
HandedOff == orch.status = "init"

\* What Switching consists of: the well-known mounts are moved under
\* /system_root, chroot, `.` is move-mounted onto /, the ramfs is deleted.
Switching == <<"move_mounts", "chroot", "move_mount_currdir", "delete_ramfs">>

(***************************************************************************)
(* C11.  The orchestrator calls execve on the target init only after       *)
(* Switching has completed: whenever the process has become the target     *)
(* init, the mounts were moved, the process chrooted into /system_root,    *)
(* `.` was move-mounted onto / and the ramfs contents were deleted, all    *)
(* before the execv.                                                       *)
(***************************************************************************)
C11_ExecvAfterSwitching ==
    HandedOff => \A i \in 1..Len(Switching) : DoneBefore(Switching[i], "execv")

\* init has reached its execv call: it is in it, the call has replaced the
\* process, or it has failed (its code is also the status a panic ends
\* the process with).
ExecvReached ==
    \/ orch.pc = "execv"
    \/ HandedOff
    \/ orch.code = BailCode("execv") /\ ~Did("panic")

(***************************************************************************)
(* C12.  The orchestrator reaches execv only after the udev listener and   *)
(* both sysfs threads have been woken and joined and the token of          *)
(* load_modules(module_force) has been released; load_modules itself does  *)
(* not block the orchestrator: the ledger mutex is free when it asks for   *)
(* it, the call returns whatever the workers have done, and the token is   *)
(* waited on only at mod_loaded.wait(), after the Listening loop.          *)
(***************************************************************************)
C12_ExecvState ==
    /\ ExecvReached =>
          /\ \A t \in ThreadNames :
                /\ threads[t].wakes >= 1
                /\ threads[t].joined
                /\ threads[t].state \in {"exited", "panicked"}
          /\ Released(ForceReq)
    /\ orch.pc = "load_modules" /\ req[ForceReq].pc = "called" =>
          ENABLED ForceLoadLock
    /\ orch.pc = "load_modules" /\ req[ForceReq].pc = "locked" =>
          ENABLED ForceLoadEnqueue
    /\ orch.pc = "load_modules" /\ req[ForceReq].pc = "enqueued" =>
          ENABLED ForceLoadReturn

C12_WaitStep ==
    ~Released(ForceReq) /\ Released(ForceReq)' =>
        /\ orch.pc = "mod_loaded_wait"
        /\ Did("poll")
        /\ \A t \in ThreadNames : threads[t].joined

C12_ExecvAfterStopAndWait == []C12_ExecvState /\ [][C12_WaitStep]_vars

\* The process became the target init after a forced module and its
\* dependencies were loaded
C12_Witness ==
    /\ HandedOff
    /\ Released(ForceReq)
    /\ \A t \in ThreadNames : threads[t].joined
    /\ \E w \in Workers : workers[w].module = "d" /\ workers[w].pc = "done"

\* init has returned an Err and main is on, or through, its fatal path.
OnFatalPath == orch.pc \in Range(FatalPath) \cup {"exited", "shell"}

(***************************************************************************)
(* C13.  With mount_timeout = N > 0, a poll of the Listening loop whose    *)
(* timeout elapses without a main-waker event ends the loop with a fatal   *)
(* error: the orchestrator does not poll again.  With mount_timeout absent *)
(* or <= 0 no poll ever times out.                                         *)
(***************************************************************************)
C13_TimeoutIsFatal ==
    /\ orch.polled = "expired" => OnFatalPath
    /\ ~(sysconf.mount_timeout.some /\ sysconf.mount_timeout.val > 0) =>
          orch.polled # "expired"

\* The forced modules that are not built in, with their transitive
\* pre-dependencies.
ForceClosure == PreClosure(Loadable(Range(sysconf.module_force)))

\* The load of a forced module, or of one of its transitive
\* pre-dependencies, has failed.
ForceFailed ==
    \E w \in Workers : Failed(w) /\ workers[w].module \in ForceClosure

(***************************************************************************)
(* C14.  A module-load failure does not abort the orchestrator but leaves  *)
(* it blocked: the failure of a worker changes nothing in the              *)
(* orchestrator, and once a forced module or one of its transitive         *)
(* pre-dependencies has failed, the module_force token is never released,  *)
(* mod_loaded.wait() cannot return, and after the root-mounted wake-up the *)
(* orchestrator is neither at execv nor on the fatal path.                 *)
(***************************************************************************)
C14_BlockedState ==
    ForceFailed =>
        /\ ~Released(ForceReq)
        /\ ~ENABLED ModLoadedWait
        /\ ~ExecvReached
        /\ orch.polled = "woken" => ~OnFatalPath /\ orch.status = "running"

C14_FailureStep ==
    (\E w \in Workers : ~Failed(w) /\ Failed(w)') => orch' = orch

C14_ForceFailureBlocks == []C14_BlockedState /\ [][C14_FailureStep]_vars

\* d, a transitive pre-dependency of the forced module a, has failed and
\* the orchestrator has stopped its threads and waits on the token
C14_Witness ==
    /\ orch.pc = "mod_loaded_wait"
    /\ sysconf.module_force = <<"a">>
    /\ \E w \in Workers : Failed(w) /\ workers[w].module = "d"

\* The last n steps of the orchestrator (all of them if there are fewer).
LastSteps(n) ==
    SubSeq(orch.steps, IF Len(orch.steps) > n THEN Len(orch.steps) - n + 1 ELSE 1,
           Len(orch.steps))

\* The process has exited with an exit code.
Exited == orch.status = "exited"

\* The emergency shell has replaced the process.
ShellSpawned == orch.status = "shell"

\* The process ended on a fatal path: any end but the one the failed
\* sanity check makes (it terminates, with no emergency shell).
FatalEnd ==
    /\ Exited \/ ShellSpawned
    /\ orch.code # BailCode("initial_sanity_check")

(***************************************************************************)
(* C15.  On every fatal path from Initializing forward the orchestrator    *)
(* logs the error at Crit, then calls sync(), then attempts the emergency  *)
(* shell, and exits with the stage's code if the shell could not be        *)
(* spawned.                                                                *)
(***************************************************************************)
C15_LogSyncShellExit ==
    FatalEnd =>
        /\ DoneBefore("kcrit", "sync")
        /\ DoneBefore("sync", "busybox")
        /\ Exited => DoneBefore("busybox", "exit")

\* The startup calls in the order main and init make them on this boot.
StageOrder ==
    LET names == [i \in 1..Len(Startup) |-> Startup[i].name]
        Made(n) == n # "mount_efivarfs" \/ orch.efi_mode
    IN  SelectSeq(names, Made)

\* The startup calls that have returned Ok so far, in the order they did.
StagesDone ==
    LET IsStage(step) == step \in StageNames
    IN  SelectSeq(orch.steps, IsStage)

\* The first call that failed, once one has.
FailedStage == StageOrder[Len(StagesDone) + 1]

(***************************************************************************)
(* C16.  The startup stages run in one fixed order; the first stage that   *)
(* fails fixes the exit code (1 sanity check, 2 kmsg open, 3 pseudo-fs     *)
(* mount, 4 config, 5 kernel version, 6 aliases, 7 pivot dir, 8 cmdline,   *)
(* 9 event-loop setup, 10 udev start, 11 force-module load, 12 vconsole,   *)
(* 13 sysfs walk, 14 poll, 101 execve) and no later stage is executed; a   *)
(* code is shared only by neighbouring calls of one stage.                 *)
(***************************************************************************)
C16_StageState ==
    LET Expected(n) ==
            CASE n = "initial_sanity_check" -> 1
              [] n = "initialize_kcon" -> 2
              [] n \in {"mount_sysfs", "mount_proc", "mount_run",
                        "mount_efivarfs"} -> 3
              [] n = "config" -> 4
              [] n = "kernel_ver_check" -> 5
              [] n = "aliases" -> 6
              [] n = "make_shutdown_pivot_dir" -> 7
              [] n = "cmdline" -> 8
              [] n \in {"poll_new", "waker_new"} -> 9
              [] n = "udev_listen" -> 10
              [] n = "load_modules" -> 11
              [] n = "setup_vconsole" -> 12
              [] n \in {"sysfs_walk_modalias", "sysfs_walk_block"} -> 13
              [] n = "poll" -> 14
              [] n = "execv" -> 101
              [] OTHER -> 0
    IN  /\ IsPrefix(StagesDone, StageOrder)
        /\ orch.code # 0 =>
              /\ Len(StagesDone) < Len(StageOrder)
              /\ orch.code = Expected(FailedStage)
        /\ Exited \/ ShellSpawned => orch.code # 0
        /\ HandedOff => orch.code = 0 /\ StagesDone = StageOrder
        /\ \A i, j \in 1..Len(Startup) :
              i < j /\ Startup[i].code # 0 /\ Startup[j].code # 0 =>
                  Startup[i].code <= Startup[j].code

C16_StageStep ==
    orch.code # 0 => /\ orch.code' = orch.code
                     /\ StagesDone' = StagesDone

C16_FirstFailureDecides == []C16_StageState /\ [][C16_StageStep]_vars

\* The handler threads that have ended, and those that ended with the
\* device handled by the downstream handler handle_uevent routed it to.
HandlersEnded == {i \in 1..Len(handlers) : handlers[i].state # "spawned"}

HandledBy(i) ==
    IF handlers[i].state = "returned" THEN Dispatch(handlers[i].uevent)
    ELSE "nobody"

(***************************************************************************)
(* C17 as claimed.  Every device that appears is seen exactly once by the  *)
(* downstream handler it belongs to (module loader, block-device handler,  *)
(* ...): once the thread spawned for a uevent has ended, a uevent that is  *)
(* routed to a handler has been handled by it, and no two threads have     *)
(* handled the same uevent of the same device.                             *)
(***************************************************************************)
C17_SeenExactlyOnce ==
    /\ \A i \in HandlersEnded :
          Dispatch(handlers[i].uevent) # "dropped" =>
              HandledBy(i) = Dispatch(handlers[i].uevent)
    /\ \A i, j \in HandlersEnded :
          /\ i # j
          /\ handlers[i].uevent = handlers[j].uevent
          /\ Dispatch(handlers[i].uevent) # "dropped"
          => ~(HandledBy(i) # "nobody" /\ HandledBy(j) # "nobody")

(***************************************************************************)
(* The alias table (ModAlias, ModAliases) and load_modalias.  Alias        *)
(* strings and patterns are sequences of characters; a pattern may hold    *)
(* `?` (any one character) and `*` (any run of characters).                *)
(***************************************************************************)
MaxAliasCalls == 2

\* GlobPattern::matches
RECURSIVE GlobMatches(_, _)
GlobMatches(pattern, str) ==
    IF pattern = <<>> THEN str = <<>>
    ELSE IF Head(pattern) = "*"
         THEN \/ GlobMatches(Tail(pattern), str)
              \/ str # <<>> /\ GlobMatches(pattern, Tail(str))
    ELSE /\ str # <<>>
         /\ Head(pattern) = "?" \/ Head(pattern) = Head(str)
         /\ GlobMatches(Tail(pattern), Tail(str))

\* ModAlias::match_alias: Ok(module) if the pattern matches, Err(()) if not
ModAlias_match_alias(entry, alias) ==
    IF GlobMatches(entry.pattern, alias)
    THEN [ok |-> TRUE, module |-> entry.module]
    ELSE [ok |-> FALSE, module |-> ""]

\* Mutant: the set reports every alias as new.
DashSetInsert_AlwaysNew(set, alias) ==
    [fresh |-> TRUE, set |-> set \cup {alias}]

\* DashSet::insert: adds the alias, true iff it was not in the set.
DashSetInsert(set, alias) ==
    [fresh |-> alias \notin set, set |-> set \cup {alias}]

\* The loop of ModAliases::_match_alias over the table, in table order:
\* the module of every entry that matches is pushed to `modules`.
RECURSIVE MatchLoop(_, _, _)
MatchLoop(table, alias, modules) ==
    IF table = <<>> THEN modules
    ELSE LET m == ModAlias_match_alias(Head(table), alias)
         IN  MatchLoop(Tail(table), alias,
                       IF m.ok THEN Append(modules, m.module) ELSE modules)

\* /usr/lib/modules/ignited.alias
AliasTable ==
    << [pattern |-> <<"u", "*">>,      module |-> "a"],
       [pattern |-> <<"?", "1">>,      module |-> "x"],
       [pattern |-> <<"u", "s", "?">>, module |-> "y"],
       [pattern |-> <<"u", "1">>,      module |-> "a"] >>

\* modalias strings of devices
AliasStrings ==
    { <<"u", "1">>, <<"u", "s", "b">>, <<"p", "2">> }

\* A call: match_alias(alias, &mut out) on a clone of the ModAliases with
\* an `out` that already holds a module, or load_modalias(alias), whose
\* `modules` vector starts empty.
AliasCallInputs ==
    [kind : {"match_alias"}, alias : AliasStrings, out : {<<"k">>}]
    \cup [kind : {"load_modalias"}, alias : AliasStrings, out : {<<>>}]

AliasCalls == DOMAIN acalls

\* A caller enters match_alias or load_modalias.
AliasCallStart(input) ==
    /\ Len(acalls) < MaxAliasCalls
    /\ acalls' = Append(acalls, [kind |-> input.kind, alias |-> input.alias,
                                 out0 |-> input.out, out |-> input.out,
                                 pc |-> "start", fresh |-> FALSE,
                                 token |-> None])
    /\ UNCHANGED <<lvars, sysconf, aliases, processed, orch, threads,
                   handlers, mainWaker, pvars>>

\* self.bookkeeping_processed.insert(alias.clone())
MatchInsert(c) ==
    /\ acalls[c].pc = "start"
    /\ LET ins == DashSetInsert(processed, acalls[c].alias)
       IN  /\ processed' = ins.set
           /\ acalls' = [acalls EXCEPT ![c].fresh = ins.fresh,
                                       ![c].pc = "inserted"]
    /\ UNCHANGED <<lvars, sysconf, aliases, orch, threads, handlers,
                   mainWaker, pvars>>

\* The rest of _match_alias: the loop if the alias was new, then Ok(()).
MatchCollect(c) ==
    /\ acalls[c].pc = "inserted"
    /\ acalls' = [acalls EXCEPT
                    ![c].out = IF acalls[c].fresh
                               THEN MatchLoop(aliases, acalls[c].alias, @)
                               ELSE @,
                    ![c].pc = IF acalls[c].kind = "match_alias"
                              THEN "done" ELSE "matched"]
    /\ UNCHANGED <<lvars, sysconf, aliases, processed, orch, threads,
                   handlers, mainWaker, pvars>>

\* Mutant: load_modalias calls load_modules whatever was matched.
Delegates_Always(modules) == TRUE

\* _load_modalias: `if !modules.is_empty()`
Delegates(modules) == modules # <<>>

\* _load_modalias, else branch: Ok(None)
LoadModaliasNone(c) ==
    /\ acalls[c].pc = "matched"
    /\ ~Delegates(acalls[c].out)
    /\ acalls' = [acalls EXCEPT ![c].pc = "done"]
    /\ UNCHANGED <<lvars, sysconf, aliases, processed, orch, threads,
                   handlers, mainWaker, pvars>>

\* _load_modalias, then branch: load_modules(&modules) is entered
LoadModaliasCall(c, r) ==
    /\ acalls[c].pc = "matched"
    /\ Delegates(acalls[c].out)
    /\ LoadModulesCall(r, acalls[c].out)
    /\ acalls' = [acalls EXCEPT ![c].pc = "load_modules",
                                ![c].token = Some(r)]
    /\ UNCHANGED <<sysconf, aliases, processed, orch, threads, handlers,
                   mainWaker, pvars>>

\* load_modules takes the ledger mutex
LoadModaliasLock(c) ==
    /\ acalls[c].pc = "load_modules"
    /\ LoadModulesLock(acalls[c].token.val)
    /\ UNCHANGED bvars

\* load_modules_unlocked queues the matched modules and spawns the workers,
\* one step at a time
LoadModaliasEnqueue(c) ==
    /\ acalls[c].pc = "load_modules"
    /\ LoadModulesEnqueue(acalls[c].token.val)
    /\ UNCHANGED bvars

\* load_modules returns: .map(Some)
LoadModaliasReturn(c) ==
    /\ acalls[c].pc = "load_modules"
    /\ LoadModulesReturn(acalls[c].token.val)
    /\ acalls' = [acalls EXCEPT ![c].pc = "done"]
    /\ UNCHANGED <<sysconf, aliases, processed, orch, threads, handlers,
                   mainWaker, pvars>>

\* The alias table is loaded; callers on several threads use clones of the
\* ModAliases and of the ModLoading.
AliasInit ==
    /\ cfg = CfgPost
    /\ LoaderInit
    /\ sysconf = NoSysconf
    /\ aliases = AliasTable
    /\ processed = {}
    /\ acalls = <<>>
    /\ PartsOff
    /\ orch = OrchNotStarted
    /\ threads = NoThreads
    /\ handlers = <<>>
    /\ mainWaker = FALSE

AliasNext ==
    \/ \E input \in AliasCallInputs : AliasCallStart(input)
    \/ \E c \in AliasCalls : MatchInsert(c)
    \/ \E c \in AliasCalls : MatchCollect(c)
    \/ \E c \in AliasCalls : LoadModaliasNone(c)
    \/ \E c \in AliasCalls : \E r \in Requests : LoadModaliasCall(c, r)
    \/ \E c \in AliasCalls : LoadModaliasLock(c)
    \/ \E c \in AliasCalls : LoadModaliasEnqueue(c)
    \/ \E c \in AliasCalls : LoadModaliasReturn(c)
    \/ \E w \in Workers : LoadModuleDepsWaited(w) /\ UNCHANGED bvars
    \/ \E w \in Workers :
          FinitOk(w) /\ FinitLogged(w, "none") /\ UNCHANGED <<ovars, cmd, fs>>
    \/ \E w \in Workers : LoadModuleRemove(w) /\ UNCHANGED bvars
    \/ \E w \in Workers : LoadModulePostDeps(w) /\ UNCHANGED bvars
    \/ \E w \in Workers : LoadModuleUnlock(w) /\ UNCHANGED bvars
    \/ \E w \in Workers : LoadModuleReturn(w) /\ UNCHANGED bvars

SpecAlias == AliasInit /\ [][AliasNext]_vars

\* Calls that are past the insert into the processed set, and calls whose
\* match_alias has returned.
Inserted(c) == acalls[c].pc # "start"
Collected(c) == acalls[c].pc \in {"matched", "load_modules", "done"}

\* The calls made with alias string `a` that are past the insert.
InsertedWith(a) == {c \in AliasCalls : acalls[c].alias = a /\ Inserted(c)}

(***************************************************************************)
(* C18.  Alias dedup.  Of the match_alias calls made with one alias        *)
(* string, sequentially or concurrently on clones of the same ModAliases,  *)
(* exactly one appends to its `out` the modules of all table entries whose *)
(* pattern matches the string, in table order; every other call leaves its *)
(* `out` as it was.  Calls with other alias strings have no part in it.    *)
(***************************************************************************)
C18_AliasDedup ==
    LET Matching(a) ==
            CASE a = <<"u", "1">> -> <<"a", "x", "a">>
              [] a = <<"u", "s", "b">> -> <<"a", "y">>
              [] OTHER -> <<>>
    IN  /\ \A a \in AliasStrings :
              /\ a \in processed <=> InsertedWith(a) # {}
              /\ InsertedWith(a) # {} =>
                    Cardinality({c \in InsertedWith(a) : acalls[c].fresh}) = 1
        /\ \A c \in AliasCalls :
              acalls[c].out =
                  IF Collected(c) /\ acalls[c].fresh
                  THEN acalls[c].out0 \o Matching(acalls[c].alias)
                  ELSE acalls[c].out0

\* Two match_alias calls with the same alias have returned: one appended the
\* three matching modules, the other left its `out` alone.
C18_Witness ==
    \E c, d \in AliasCalls :
        /\ c # d
        /\ acalls[c].alias = <<"u", "1">> /\ acalls[d].alias = <<"u", "1">>
        /\ acalls[c].pc = "done" /\ acalls[d].pc = "done"
        /\ acalls[c].out = <<"k", "a", "x", "a">>
        /\ acalls[d].out = <<"k">>

\* The load_modalias calls, and those that have returned.
LoadModaliasCalls == {c \in AliasCalls : acalls[c].kind = "load_modalias"}
LoadModaliasDone == {c \in LoadModaliasCalls : acalls[c].pc = "done"}

\* The load_modules calls that have been entered.
LoadsStarted == {r \in Requests : req[r].pc # "idle"}

(***************************************************************************)
(* C19.  load_modalias(alias) returns a completion token if and only if    *)
(* this call matched at least one module, and then the token is that of a  *)
(* load_modules call for exactly the matched modules; otherwise it starts  *)
(* no load and returns no token.  A repeated load_modalias for an alias    *)
(* that was already processed returns no token and starts no load, also    *)
(* while the modules matched by the first call are still in `loading`.     *)
(***************************************************************************)
C19_LoadModalias ==
    /\ \A c \in LoadModaliasDone :
          /\ acalls[c].token.some <=> acalls[c].out # <<>>
          /\ acalls[c].token.some <=>
                /\ acalls[c].fresh
                /\ \E i \in 1..Len(aliases) :
                      GlobMatches(aliases[i].pattern, acalls[c].alias)
    /\ \A c \in AliasCalls :
          acalls[c].token.some =>
              /\ c \in LoadModaliasCalls
              /\ acalls[c].fresh
              /\ req[acalls[c].token.val].modules = acalls[c].out
              /\ acalls[c].pc = "done" =>
                    req[acalls[c].token.val].pc = "returned"
    /\ LoadsStarted =
          {acalls[c].token.val : c \in {d \in AliasCalls : acalls[d].token.some}}
    /\ \A c, d \in AliasCalls :
          c # d /\ acalls[c].token.some /\ acalls[d].token.some =>
              acalls[c].token.val # acalls[d].token.val

\* A second load_modalias for the same alias has returned None while module
\* "a", matched by the first, is still in `loading`.
C19_Witness ==
    \E c, d \in LoadModaliasDone :
        /\ acalls[c].alias = <<"u", "1">> /\ acalls[d].alias = <<"u", "1">>
        /\ acalls[c].token.some
        /\ ~acalls[d].token.some
        /\ "a" \in DOMAIN loading
        /\ Cardinality(LoadsStarted) = 1

(***************************************************************************)
(* The udev boot with the scheduling the threads get: the listener thread  *)
(* keeps running (socket setup, a pending wake event is seen by the next   *)
(* poll), the orchestrator's wake() returns (Ok or Err) and its join       *)
(* returns once the thread has ended.                                      *)
(***************************************************************************)
SpecUdevFair ==
    /\ UdevInit
    /\ [][UdevNext]_vars
    /\ WF_vars(\E ok \in BOOLEAN : Alive /\ UdevSocketSetup(ok))
    /\ WF_vars(Alive /\ UdevWoken)
    /\ WF_vars(\E ok \in BOOLEAN : JoinNowWake(ok))
    /\ WF_vars(JoinNowJoin)

\* The owner stops the udev listener: join_now is entered.
UdevStopCalled == orch.pc = "udev_stop_wake"

\* udev.stop has returned.
UdevStopped == threads["udev"].joined

(***************************************************************************)
(* C20.  Stopping the udev listener: join_now invokes wake() before        *)
(* join(); the listener sees its wake token, leaves its event loop and     *)
(* terminates, so the join and with it stop() returns.  On UnexpectedEof   *)
(* from the netlink socket the thread returns as well (no panic, no        *)
(* handler spawned).                                                       *)
(***************************************************************************)
C20_WakeBeforeJoin ==
    /\ orch.pc = "udev_stop_join" \/ UdevStopped => threads["udev"].wakes >= 1
    /\ UdevStopped => threads["udev"].state \in {"exited", "panicked"}

C20_ThreadStep ==
    /\ UdevRecvFails("eof") =>
          threads'["udev"].state = "exited" /\ handlers' = handlers
    /\ threads["udev"].state = "polling" /\ threads'["udev"].state = "exited"
          => \/ threads["udev"].woken
             \/ \E o \in {"eof", "undecodable"} : UdevRecvFails(o)

C20_StopTerminates ==
    /\ []C20_WakeBeforeJoin
    /\ [][C20_ThreadStep]_vars
    /\ UdevStopCalled ~> UdevStopped

(***************************************************************************)
(* Strings.  A string is the sequence of its lexemes: the separators the   *)
(* code splits or matches on (= , . - _ / ") are lexemes of their own, and *)
(* the text between two separators is cut wherever a prefix the code       *)
(* strips ends: `/dev/disk/by-uuidU1` is the sequence                      *)
(* / dev / disk / by - uuid U1.  Two lexemes that follow each other are    *)
(* adjacent text, so every match the code makes on characters is a match   *)
(* on whole lexemes.                                                       *)
(***************************************************************************)
NoneStr == [some |-> FALSE, val |-> <<>>]

\* Option::get_or_insert: the value is kept if there is one.
get_or_insert(opt, v) == IF opt.some THEN opt ELSE [some |-> TRUE, val |-> v]

\* str::starts_with
StartsWith(str, prefix) ==
    /\ Len(prefix) <= Len(str)
    /\ SubSeq(str, 1, Len(prefix)) = prefix

\* str::strip_prefix: what follows the prefix, whether or not a separator
\* comes next
StripPrefix(str, prefix) ==
    IF StartsWith(str, prefix)
    THEN [some |-> TRUE, val |-> SubSeq(str, Len(prefix) + 1, Len(str))]
    ELSE NoneStr

\* str::strip_suffix
StripSuffix(str, suffix) ==
    IF /\ Len(suffix) <= Len(str)
       /\ SubSeq(str, Len(str) - Len(suffix) + 1, Len(str)) = suffix
    THEN [some |-> TRUE, val |-> SubSeq(str, 1, Len(str) - Len(suffix))]
    ELSE NoneStr

\* The places where `sep` occurs in `str`.
Occurrences(str, sep) ==
    {i \in 1..(Len(str) - Len(sep) + 1) :
        SubSeq(str, i, i + Len(sep) - 1) = sep}

\* str::split_once: the text before and after the first occurrence of sep.
SplitOnce(str, sep) ==
    IF Occurrences(str, sep) = {}
    THEN [some |-> FALSE, before |-> <<>>, after |-> <<>>]
    ELSE LET i == CHOOSE j \in Occurrences(str, sep) :
                     \A k \in Occurrences(str, sep) : j <= k
         IN  [some |-> TRUE,
              before |-> SubSeq(str, 1, i - 1),
              after |-> SubSeq(str, i + Len(sep), Len(str))]

\* str::split on a one-character separator: the empty string gives one
\* empty piece.
RECURSIVE Split(_, _)
Split(str, sep) ==
    LET cut == SplitOnce(str, <<sep>>)
    IN  IF cut.some THEN <<cut.before>> \o Split(cut.after, sep)
        ELSE <<str>>

\* str::replace of one character by another.
Replace(str, from, to) ==
    [i \in 1..Len(str) |-> IF str[i] = from THEN to ELSE str[i]]

(***************************************************************************)
(* early_logging: VerbosityLevel::try_from and KmsgBuf.                    *)
(***************************************************************************)
\* impl TryFrom<&str> for VerbosityLevel
VerbosityLevel_try_from(level) ==
    CASE level = <<"debug">> -> Some(Debug)
      [] level = <<"info">> -> Some(Info)
      [] level = <<"notice">> -> Some(Notice)
      [] level \in {<<"warn">>, <<"warning">>} -> Some(Warn)
      [] level \in {<<"err">>, <<"error">>} -> Some(Err)
      [] OTHER -> None

\* Mutant: entries are written through at once, flushed or not.
KmsgBuf_kany_Unbuffered(p, level, args) == KConsole_println(p, level, args)

\* KmsgBuf::_kany: forwarded once flushed, queued before.
KmsgBuf_kany(p, level, args) ==
    IF p.flushed
    THEN KConsole_println(p, level, args)
    ELSE [p EXCEPT !.inner_buf = Append(@, [level |-> level, args |-> args])]

\* KmsgBuf::kdebug / kwarn
KmsgBuf_kdebug(p, args) == KmsgBuf_kany(p, Debug, args)
KmsgBuf_kwarn(p, args) == KmsgBuf_kany(p, Warn, args)

\* The loop of flush_with_level: the queue is drained front to back.
RECURSIVE Drain(_, _)
Drain(p, entries) ==
    IF entries = <<>> THEN p
    ELSE Drain(KConsole_println(p, Head(entries).level, Head(entries).args),
               Tail(entries))

\* KmsgBuf::flush_with_level
flush_with_level(p, level) ==
    LET q == [change_verbosity(p, level) EXCEPT !.flushed = TRUE,
                                                !.inner_buf = <<>>]
    IN  Drain(q, p.inner_buf)

(***************************************************************************)
(* CmdlineArgs: the handlers of the verbosity keys.                        *)
(***************************************************************************)
\* parse_booster_debug
parse_booster_debug(p) ==
    KmsgBuf_kdebug(
        [p EXCEPT !.verbosity_level = get_or_insert(@, Debug)],
        <<"booster.debug is deprecated">>)

\* parse_quiet
parse_quiet(p) == [p EXCEPT !.verbosity_level = get_or_insert(@, Err)]

\* Mutant: a later valid value overwrites the level.
LogValue_LastWins(p, key, value) ==
    LET level == VerbosityLevel_try_from(value)
    IN  IF level.some THEN [p EXCEPT !.verbosity_level = level]
        ELSE IF value = <<"console">>
             THEN KmsgBuf_kdebug(p, <<key, "=console is ignored">>)
        ELSE KmsgBuf_kwarn(p, <<"unknown key", key>> \o value)

\* The body of the loop of parse_ignited_log for one value.
LogValue(p, key, value) ==
    LET level == VerbosityLevel_try_from(value)
    IN  IF level.some
        THEN [p EXCEPT !.verbosity_level = get_or_insert(@, level.val)]
        ELSE IF value = <<"console">>
             THEN KmsgBuf_kdebug(p, <<key, "=console is ignored">>)
        ELSE KmsgBuf_kwarn(p, <<"unknown key", key>> \o value)

RECURSIVE LogValues(_, _, _)
LogValues(p, key, values) ==
    IF values = <<>> THEN p
    ELSE LogValues(LogValue(p, key, Head(values)), key, Tail(values))

\* parse_ignited_log: ignited.log takes its value whole, booster.log
\* (compat) takes the non-empty pieces of a comma list.
parse_ignited_log(p, arg_value, compat) ==
    LET key == IF compat THEN "booster.log" ELSE "ignited.log"
        NonEmpty(v) == v # <<>>
        iter_arg == IF compat
                    THEN SelectSeq(Split(arg_value.val, ","), NonEmpty)
                    ELSE <<arg_value.val>>
    IN  IF arg_value.some THEN LogValues(p, key, iter_arg)
        ELSE KmsgBuf_kwarn(p, <<"unknown key", key, "<EMPTY>">>)

(***************************************************************************)
(* mount.rs: PartitionSourceBuilder.  A value is a record: its variant,    *)
(* the UUID or text it carries, the PARTNROFF number, the EFI GUID.        *)
(***************************************************************************)
PartitionSource(kind, text, number, guid) ==
    [kind |-> kind, text |-> text, number |-> number, guid |-> guid]

NoSource == [some |-> FALSE, val |-> PartitionSource("", <<>>, 0, <<>>)]
SomeSource(source) == [some |-> TRUE, val |-> source]

\* UUIDs in the simple form (32 hex digits, no dashes): one lexeme each.
UuidLexemes == {"U1", "U2"}

\* uuid::Uuid::from_str
Uuid_from_str(str) ==
    IF Len(str) = 1 /\ str[1] \in UuidLexemes
    THEN [some |-> TRUE, val |-> str]
    ELSE NoneStr

\* i64::from_str
i64_from_str(str) ==
    LET Digit(d) == CASE d = "0" -> 0 [] d = "1" -> 1 [] d = "2" -> 2
        Digits == {"0", "1", "2"}
    IN  IF Len(str) = 1 /\ str[1] \in Digits THEN Some(Digit(str[1]))
        ELSE IF Len(str) = 2 /\ str[1] = "-" /\ str[2] \in Digits
             THEN Some(0 - Digit(str[2]))
        ELSE None

\* uuid_from_str: a UUID that is quoted on both sides is unquoted first.
uuid_from_str(uuid_str_q) ==
    LET unq == StripPrefix(uuid_str_q, <<"\"">>)
        inner == IF unq.some THEN StripSuffix(unq.val, <<"\"">>) ELSE NoneStr
    IN  Uuid_from_str(IF inner.some THEN inner.val ELSE uuid_str_q)

parse_label(label) == PartitionSource("Label", label, 0, <<>>)
parse_partlabel(partlabel) == PartitionSource("PartLabel", partlabel, 0, <<>>)
parse_raw_device(raw_device) ==
    PartitionSource("RawDevice", raw_device, 0, <<>>)

parse_uuid(uuid) ==
    LET u == uuid_from_str(uuid)
    IN  IF u.some THEN SomeSource(PartitionSource("Uuid", u.val, 0, <<>>))
        ELSE NoSource

parse_partuuid(partuuid) ==
    LET u == uuid_from_str(partuuid)
    IN  IF u.some THEN SomeSource(PartitionSource("PartUuid", u.val, 0, <<>>))
        ELSE NoSource

parse_partuuid_partnroff(partuuid_partnroff) ==
    LET cut == SplitOnce(partuuid_partnroff, <<"/", "PARTNROFF", "=">>)
        partnroff == i64_from_str(cut.after)
        partuuid == uuid_from_str(cut.before)
    IN  IF cut.some
        THEN IF partnroff.some /\ partuuid.some
             THEN SomeSource(PartitionSource("PartUuidPartnroff",
                                             partuuid.val, partnroff.val,
                                             <<>>))
             ELSE NoSource
        ELSE parse_partuuid(partuuid_partnroff)

\* The prefixes _parse strips.
ByUuid == <<"/", "dev", "/", "disk", "/", "by", "-", "uuid">>
ByLabel == <<"/", "dev", "/", "disk", "/", "by", "-", "label">>
ByPartuuid == <<"/", "dev", "/", "disk", "/", "by", "-", "partuuid">>
ByPartlabel == <<"/", "dev", "/", "disk", "/", "by", "-", "partlabel">>

\* a.or_else(|| b) on the results of two strip_prefix calls
OrElse(a, b) == IF a.some THEN a ELSE b

\* PartitionSourceBuilder::_parse
PartitionSource_parse(root) ==
    LET uuid == OrElse(StripPrefix(root, <<"UUID", "=">>),
                       StripPrefix(root, ByUuid))
        label == OrElse(StripPrefix(root, <<"LABEL", "=">>),
                        StripPrefix(root, ByLabel))
        partuuid_partnroff == StripPrefix(root, <<"PARTUUID", "=">>)
        partuuid == StripPrefix(root, ByPartuuid)
        partlabel == OrElse(StripPrefix(root, <<"PARTLABEL", "=">>),
                            StripPrefix(root, ByPartlabel))
    IN  IF uuid.some THEN parse_uuid(uuid.val)
        ELSE IF label.some THEN SomeSource(parse_label(label.val))
        ELSE IF partuuid_partnroff.some
             THEN parse_partuuid_partnroff(partuuid_partnroff.val)
        ELSE IF partuuid.some THEN parse_partuuid(partuuid.val)
        ELSE IF partlabel.some THEN SomeSource(parse_partlabel(partlabel.val))
        ELSE IF StartsWith(root, <<"/", "dev", "/">>)
             THEN SomeSource(parse_raw_device(root))
        ELSE NoSource

(***************************************************************************)
(* mount.rs: RootOptsBuilder.  MsFlags is the set of the flags that are    *)
(* set.                                                                    *)
(***************************************************************************)
\* impl Default for RootOptsBuilder
RootOptsBuilder_default ==
    [source |-> NoSource, fstype |-> NoneStr, rw |-> FALSE, flags |-> {},
     options |-> NoneStr]

\* Mutant: a later source replaces the one the builder has.
RootOpts_source_Overwrite(b, source) ==
    [b EXCEPT !.source = SomeSource(source)]

\* RootOptsBuilder::source / _fstype / ro / rw
RootOpts_source(b, source) ==
    [b EXCEPT !.source = IF @.some THEN @ ELSE SomeSource(source)]
RootOpts_fstype(b, fstype) == [b EXCEPT !.fstype = get_or_insert(@, fstype)]
RootOpts_ro(b) == [b EXCEPT !.rw = FALSE]
RootOpts_rw(b) == [b EXCEPT !.rw = TRUE]

\* The arms of the match in _add_opts that insert a flag, and those that
\* remove one.
InsertsFlag ==
    [dirsync |-> "MS_DIRSYNC", lazytime |-> "MS_LAZYTIME",
     noatime |-> "MS_NOATIME", nodev |-> "MS_NODEV",
     nodiratime |-> "MS_NODIRATIME", noexec |-> "MS_NOEXEC",
     nosuid |-> "MS_NOSUID", relatime |-> "MS_RELATIME",
     silent |-> "MS_SILENT", strictatime |-> "MS_STRICTATIME",
     sync |-> "MS_SYNCHRONOUS"]

RemovesFlag ==
    [nolazytime |-> "MS_LAZYTIME", atime |-> "MS_NOATIME",
     dev |-> "MS_NODEV", diratime |-> "MS_NODIRATIME",
     exec |-> "MS_NOEXEC", suid |-> "MS_NOSUID",
     norelatime |-> "MS_RELATIME", nostrictatime |-> "MS_STRICTATIME",
     async |-> "MS_SYNCHRONOUS"]

\* Mutant: an unrecognized option replaces the options string.
add_opt_Replace(b, opt) ==
    IF Len(opt) = 1 /\ opt[1] \in DOMAIN InsertsFlag
    THEN [b EXCEPT !.flags = @ \cup {InsertsFlag[opt[1]]}]
    ELSE IF Len(opt) = 1 /\ opt[1] \in DOMAIN RemovesFlag
    THEN [b EXCEPT !.flags = @ \ {RemovesFlag[opt[1]]}]
    ELSE IF opt = <<"nosymfollow">> THEN b
    ELSE [b EXCEPT !.options = [some |-> TRUE, val |-> opt]]

\* The body of the loop of _add_opts for one option.
add_opt(b, opt) ==
    IF Len(opt) = 1 /\ opt[1] \in DOMAIN InsertsFlag
    THEN [b EXCEPT !.flags = @ \cup {InsertsFlag[opt[1]]}]
    ELSE IF Len(opt) = 1 /\ opt[1] \in DOMAIN RemovesFlag
    THEN [b EXCEPT !.flags = @ \ {RemovesFlag[opt[1]]}]
    ELSE IF opt = <<"nosymfollow">> THEN b
    ELSE [b EXCEPT !.options =
                      IF @.some
                      THEN [some |-> TRUE, val |-> @.val \o <<",">> \o opt]
                      ELSE [some |-> TRUE, val |-> opt]]

RECURSIVE AddOptsLoop(_, _)
AddOptsLoop(b, opts) ==
    IF opts = <<>> THEN b
    ELSE AddOptsLoop(add_opt(b, Head(opts)), Tail(opts))

\* RootOptsBuilder::_add_opts
add_opts(b, opts) == AddOptsLoop(b, Split(opts, ","))

(***************************************************************************)
(* module.rs: ModParams, a map from the normalized module name to the      *)
(* list of its "param=value" strings.                                      *)
(***************************************************************************)
\* ModParams::normalize_module
normalize_module(module) == Replace(module, "-", "_")

\* Mutant: the key is the module name as given.
ModParams_insert_Raw(params, module, param, args) ==
    LET key == module
        old == IF key \in DOMAIN params THEN params[key] ELSE <<>>
    IN  [k \in DOMAIN params \cup {key} |->
            IF k = key THEN Append(old, param \o <<"=">> \o args)
            ELSE params[k]]

\* ModParams::_insert
ModParams_insert(params, module, param, args) ==
    LET key == normalize_module(module)
        old == IF key \in DOMAIN params THEN params[key] ELSE <<>>
    IN  [k \in DOMAIN params \cup {key} |->
            IF k = key THEN Append(old, param \o <<"=">> \o args)
            ELSE params[k]]

\* ModParams::_get_params
get_params(params, module) ==
    IF normalize_module(module) \in DOMAIN params
    THEN params[normalize_module(module)]
    ELSE <<>>

(***************************************************************************)
(* CmdlineArgs::parse_current.  `cmd` holds the locals of parse_inner, the *)
(* KmsgBuf, the KConsole threshold and what the parse reads from the       *)
(* machine: the architecture, the LoaderDevicePartUUID EFI variable and    *)
(* /proc/sys/kernel/printk_devkmsg.                                        *)
(***************************************************************************)
MaxArgs == 2

\* Mutant: the buffer is flushed on the way out of a failed parse.
ParseErr_Flushed(p) ==
    [flush_with_level(p, IF p.verbosity_level.some THEN p.verbosity_level.val
                         ELSE VerbosityLevel_default)
        EXCEPT !.status = "error"]

\* The call returns Err (init bails with exit code 8) or panics.
ParseErr(p) == [p EXCEPT !.status = "error"]
ParsePanic(p) == [p EXCEPT !.status = "panicked"]

\* parse_init
parse_init(p, arg_value) ==
    IF arg_value.some
    THEN IF "\\0" \in Range(arg_value.val) THEN ParseErr(p)
         ELSE [p EXCEPT !.init = get_or_insert(@, arg_value.val)]
    ELSE KmsgBuf_kwarn(p, <<"init key is empty, ignoring">>)

\* parse_mod_param
parse_mod_param(p, mod_param, arg_value) ==
    LET cut == SplitOnce(mod_param, <<".">>)
    IN  IF arg_value.some /\ cut.some
        THEN [p EXCEPT !.mod_params =
                 ModParams_insert(@, cut.before, cut.after, arg_value.val)]
        ELSE KmsgBuf_kwarn(p, <<"invalid key">> \o mod_param)

\* parse_resume
parse_resume(p, arg_value) ==
    LET source == PartitionSource_parse(arg_value.val)
    IN  IF arg_value.some
        THEN IF source.some
             THEN [p EXCEPT !.resume_source = IF @.some THEN @ ELSE source]
             ELSE ParseErr(p)
        ELSE KmsgBuf_kwarn(p, <<"resume key is empty, ignoring">>)

\* parse_root
parse_root(p, arg_value) ==
    LET source == PartitionSource_parse(arg_value.val)
    IN  IF arg_value.some
        THEN IF source.some
             THEN [p EXCEPT !.root_opts = RootOpts_source(@, source.val)]
             ELSE ParseErr(p)
        ELSE KmsgBuf_kwarn(p, <<"root key is empty, ignoring">>)

\* parse_rootfstype
parse_rootfstype(p, arg_value) ==
    IF arg_value.some
    THEN [p EXCEPT !.root_opts = RootOpts_fstype(@, arg_value.val)]
    ELSE KmsgBuf_kwarn(p, <<"rootfstype key is empty, ignoring">>)

\* parse_rootflags
parse_rootflags(p, arg_value) ==
    IF arg_value.some
    THEN [p EXCEPT !.root_opts = add_opts(@, arg_value.val)]
    ELSE KmsgBuf_kwarn(p, <<"rootflags key is empty, ignoring">>)

\* parse_rootmode
parse_rootmode(p, rw) ==
    [p EXCEPT !.root_opts = IF rw THEN RootOpts_rw(@) ELSE RootOpts_ro(@)]

\* parse_luksopts / parse_luksname / parse_luksuuid: todo!()
parse_luks(p) == ParsePanic(p)

\* The body of the loop of parse_inner for one argument.
parse_arg(p, arg) ==
    LET cut == SplitOnce(arg, <<"=">>)
        arg_key == IF cut.some THEN cut.before ELSE arg
        arg_value == IF cut.some THEN [some |-> TRUE, val |-> cut.after]
                     ELSE NoneStr
    IN  CASE arg_key = <<"ignited", ".", "log">> ->
                 parse_ignited_log(p, arg_value, FALSE)
          [] arg_key = <<"booster", ".", "log">> ->
                 parse_ignited_log(p, arg_value, TRUE)
          [] arg_key = <<"booster", ".", "debug">> -> parse_booster_debug(p)
          [] arg_key = <<"quiet">> -> parse_quiet(p)
          [] arg_key = <<"root">> -> parse_root(p, arg_value)
          [] arg_key = <<"resume">> -> parse_resume(p, arg_value)
          [] arg_key = <<"init">> -> parse_init(p, arg_value)
          [] arg_key = <<"rootfstype">> -> parse_rootfstype(p, arg_value)
          [] arg_key = <<"rootflags">> -> parse_rootflags(p, arg_value)
          [] arg_key = <<"ro">> -> parse_rootmode(p, FALSE)
          [] arg_key = <<"rw">> -> parse_rootmode(p, TRUE)
          [] arg_key \in {<<"rd", ".", "luks", ".", "options">>,
                          <<"rd", ".", "luks", ".", "name">>,
                          <<"rd", ".", "luks", ".", "uuid">>} -> parse_luks(p)
          [] OTHER -> parse_mod_param(p, arg_key, arg_value)

\* INIT_DEFAULT_PATH
INIT_DEFAULT_PATH == <<"/", "sbin", "/", "init">>

\* The end of parse_inner: the buffer is flushed with the level that was
\* established, Info if none was; init defaults to /sbin/init.
parse_inner_end(p) ==
    LET level == IF p.verbosity_level.some THEN p.verbosity_level.val
                 ELSE VerbosityLevel_default
    IN  [flush_with_level(p, level) EXCEPT
            !.init = get_or_insert(@, INIT_DEFAULT_PATH),
            !.status = "parsed"]

\* ROOT_AUTODISC_UUID_TYPE of the architecture the binary was built for
ROOT_AUTODISC_UUID_TYPE(arch) ==
    CASE arch = "x86_64" -> <<"4f68bce3e8cd4db196e7fbcaf984b709">>
      [] arch = "x86" -> <<"44479540f29741b29af7d131d5f0458a">>
      [] arch = "arm" -> <<"69dad7102ce44e3cb16c21a1d49abed3">>
      [] arch = "aarch64" -> <<"b921b0451df041c3af444c6f280d3fae">>

\* What the file of the LoaderDevicePartUUID variable can hold.
EfiVarContents == {"absent", "short", "invalid_utf16", "invalid_uuid", "guid"}

\* EfiPartitionGptGuid::get_current: read_efi_var fails if the file cannot
\* be read and slices data[..4], which panics on a file of fewer than four
\* bytes; the rest is decoded as UTF-16 and parsed as a UUID.
get_current(efivar) ==
    CASE efivar.content = "absent" -> [status |-> "error", guid |-> <<>>]
      [] efivar.content = "short" -> [status |-> "panicked", guid |-> <<>>]
      [] efivar.content \in {"invalid_utf16", "invalid_uuid"} ->
             [status |-> "error", guid |-> <<>>]
      [] efivar.content = "guid" -> [status |-> "ok", guid |-> efivar.guid]

\* PartitionSourceBuilder::autodiscover_root: logs at Info, then reads the
\* EFI variable.
autodiscover_root(p) ==
    LET q == KConsole_println(p, Info, <<"root= param is not specified">>)
        cur == get_current(p.efivar)
    IN  IF cur.status = "ok"
        THEN [q EXCEPT !.root_opts =
                 RootOpts_source(@, PartitionSource("PartType",
                                     ROOT_AUTODISC_UUID_TYPE(p.arch), 0,
                                     cur.guid))]
        ELSE [q EXCEPT !.status = cur.status]

\* KConsole::disable_throttling_on_verbose, and parse_current logging its
\* error at Info.
disable_throttling_on_verbose(p) ==
    IF p.current_level # Debug THEN p
    ELSE IF p.printk_devkmsg = "unreadable"
         THEN KConsole_println(p, Info, <<"error while reading">>)
    ELSE IF p.printk_devkmsg = "on" THEN p
    ELSE IF p.printk_devkmsg = "readonly"
         THEN KConsole_println(p, Info, <<"error while writing">>)
    ELSE [p EXCEPT !.printk_devkmsg = "on"]

\* The rest of parse_current once parse_inner has returned Ok.
parse_current_end(p) ==
    LET q == IF p.root_opts.source.some THEN p ELSE autodiscover_root(p)
    IN  IF q.status # "parsed" THEN q
        ELSE [disable_throttling_on_verbose(q) EXCEPT !.status = "done"]

\* PartitionSourceBuilder::build turns the source into a device path.  Its
\* body is todo!() in the source: `resolved` tells whether the call gives
\* the path or panics as the stub does.
PartitionSource_build(source, resolved) ==
    IF resolved
    THEN [status |-> "ok", path |-> <<"device of">> \o source.text]
    ELSE [status |-> "panicked", path |-> <<>>]

\* RootOptsBuilder::build: unwrap panics on a builder without source or
\* fstype; MS_RDONLY is set to !rw.
RootOpts_build(b, resolved) ==
    LET source == PartitionSource_build(b.source.val, resolved)
    IN  IF ~b.source.some \/ ~b.fstype.some \/ source.status # "ok"
        THEN [status |-> "panicked", source |-> <<>>, fstype |-> <<>>,
              flags |-> {}, options |-> NoneStr]
        ELSE [status |-> "built", source |-> source.path,
              fstype |-> b.fstype.val,
              flags |-> IF b.rw THEN b.flags \ {"MS_RDONLY"}
                        ELSE b.flags \cup {"MS_RDONLY"},
              options |-> b.options]

\* Arguments that set the verbosity
LogArgs ==
    { <<"ignited", ".", "log", "=", "debug">>,
      <<"ignited", ".", "log", "=", "bogus">>,
      <<"ignited", ".", "log">>,
      <<"ignited", ".", "log", "=", "err", ",", "debug">>,
      <<"ignited", ".", "log", "=", "error">>,
      <<"booster", ".", "log", "=", "console", ",", "warning", ",", "info">>,
      <<"booster", ".", "log", "=", ",", "bogus", ",", ",", "notice">>,
      <<"booster", ".", "log", "=", "console">>,
      <<"booster", ".", "debug">>,
      <<"quiet">> }

\* Arguments that name the root or the resume partition
RootArgs ==
    { <<"root", "=", "UUID", "=", "U1">>,
      <<"root", "=", "/", "dev", "/", "disk", "/", "by", "-", "uuid", "/",
        "U1">>,
      <<"root", "=", "/", "dev", "/", "disk", "/", "by", "-", "uuid", "U1">>,
      <<"root", "=", "LABEL", "=", "sys", "_", "a">>,
      <<"root", "=", "/", "dev", "/", "disk", "/", "by", "-", "label", "/",
        "sys", "_", "a">>,
      <<"root", "=", "PARTUUID", "=", "U2">>,
      <<"root", "=", "/", "dev", "/", "disk", "/", "by", "-", "partuuid",
        "/", "U2">>,
      <<"root", "=", "PARTLABEL", "=", "sysa">>,
      <<"root", "=", "/", "dev", "/", "disk", "/", "by", "-", "partlabel",
        "/", "sysa">>,
      <<"root", "=", "/", "dev", "/", "sda1">>,
      <<"root", "=", "PARTUUID", "=", "U2", "/", "PARTNROFF", "=", "2">>,
      <<"root", "=", "UUID", "=", "\"", "U1", "\"">>,
      <<"root", "=", "bogus">>,
      <<"root">>,
      <<"resume", "=", "UUID", "=", "U2">>,
      <<"resume", "=", "/", "dev", "/", "disk", "/", "by", "-", "uuid",
        "/", "U2">> }

\* Arguments that set how the root is mounted
MountArgs ==
    { <<"rootflags", "=", "nosuid", ",", "nodev", ",", "discard">>,
      <<"rootflags", "=", "suid", ",", "dev">>,
      <<"rootflags", "=", "nosymfollow", ",", "noatime">>,
      <<"rootflags", "=", "data", "=", "ordered", ",", ",", "relatime">>,
      <<"rootflags", "=">>,
      <<"rootflags">>,
      <<"ro">>,
      <<"rw">>,
      <<"rootfstype", "=", "ext4">>,
      <<"rootfstype", "=", "btrfs">>,
      <<"root", "=", "UUID", "=", "U1">>,
      <<"init", "=", "/", "bin", "/", "sh">> }

\* Module parameters
ParamArgs ==
    { <<"mod", "-", "a", ".", "p", "=", "1">>,
      <<"mod", "_", "a", ".", "q", "=", "2">>,
      <<"mod", "-", "a", ".", "p", "=", "2">>,
      <<"modb", ".", "p", "=", "1">>,
      <<"mod", "-", "a", "-", "b", ".", "x", ".", "y", "=", "0">>,
      <<"nodot", "=", "1">>,
      <<"bare">>,
      <<>> }

\* rd.luks.* among other arguments
LuksArgs ==
    { <<"rd", ".", "luks", ".", "uuid", "=", "U1">>,
      <<"rd", ".", "luks", ".", "name", "=", "U1", "=", "root">>,
      <<"rd", ".", "luks", ".", "options", "=", "discard">>,
      <<"root", "=", "UUID", "=", "U1">>,
      <<"rw">>,
      <<"quiet">>,
      <<"rootflags", "=", "noatime">>,
      <<"amdgpu", ".", "dpm", "=", "0">> }

\* Repeated keys, and values that make the parse fail
RepeatArgs ==
    { <<"root", "=", "UUID", "=", "U1">>,
      <<"root", "=", "LABEL", "=", "sys", "_", "a">>,
      <<"root", "=", "bogus">>,
      <<"resume", "=", "UUID", "=", "U2">>,
      <<"resume", "=", "LABEL", "=", "swap">>,
      <<"resume", "=", "bogus">>,
      <<"init", "=", "/", "bin", "/", "sh">>,
      <<"init", "=", "/", "bin", "/", "bash">>,
      <<"init", "=", "/", "bin", "\\0", "sh">>,
      <<"booster", ".", "debug">>,
      <<"bare">> }

\* The sequences of at most n elements of S.
RECURSIVE SeqsUpTo(_, _)
SeqsUpTo(S, n) ==
    IF n = 0 THEN {<<>>}
    ELSE LET shorter == SeqsUpTo(S, n - 1)
         IN  shorter \cup {Append(t, x) : t \in shorter, x \in S}

\* /proc/cmdline, trimmed and split at spaces
CmdLines ==
    UNION {SeqsUpTo(pool, MaxArgs) :
              pool \in {LogArgs, RootArgs, MountArgs, ParamArgs, LuksArgs,
                        RepeatArgs}}

\* The machines: target architecture, LoaderDevicePartUUID, printk_devkmsg
Machines ==
    { [arch |-> "x86_64",  efivar |-> "guid",          printk |-> "ratelimit"],
      [arch |-> "aarch64", efivar |-> "guid",          printk |-> "on"],
      [arch |-> "x86_64",  efivar |-> "absent",        printk |-> "unreadable"],
      [arch |-> "x86",     efivar |-> "short",         printk |-> "readonly"],
      [arch |-> "arm",     efivar |-> "invalid_utf16", printk |-> "ratelimit"],
      [arch |-> "x86_64",  efivar |-> "invalid_uuid",  printk |-> "on"] }

\* The locals of parse_inner before the first argument, with
\* KmsgBuf::new(kcon) on a KConsole that still has the default threshold.
CmdStart(cmdline, machine) ==
    [status |-> "parsing", cmdline |-> cmdline, pos |-> 1,
     arch |-> machine.arch,
     efivar |-> [content |-> machine.efivar, guid |-> <<"G1">>],
     printk_devkmsg |-> machine.printk,
     verbosity_level |-> None, init |-> NoneStr,
     root_opts |-> RootOptsBuilder_default, resume_source |-> NoSource,
     mod_params |-> <<>>,
     inner_buf |-> <<>>, flushed |-> FALSE,
     current_level |-> VerbosityLevel_default, out |-> <<>>,
     root |-> [status |-> "none"]]

\* What a step wrote goes to /dev/kmsg.
Written(p) ==
    /\ cmd' = [p EXCEPT !.out = <<>>]
    /\ kmsg' = kmsg \o p.out

\* parse_inner handles the next argument; an Err leaves through `?`.
ParseArg ==
    /\ cmd.status = "parsing"
    /\ cmd.pos <= Len(cmd.cmdline)
    /\ Written([parse_arg(cmd, cmd.cmdline[cmd.pos]) EXCEPT !.pos = @ + 1])
    /\ UNCHANGED <<lvars, ovars, fs>>

\* parse_inner is through the arguments
ParseInnerEnd ==
    /\ cmd.status = "parsing"
    /\ cmd.pos > Len(cmd.cmdline)
    /\ Written(parse_inner_end(cmd))
    /\ UNCHANGED <<lvars, ovars, fs>>

\* parse_current after parse_inner
ParseCurrentEnd ==
    /\ cmd.status = "parsed"
    /\ Written(parse_current_end(cmd))
    /\ UNCHANGED <<lvars, ovars, fs>>

\* args.root_opts().clone().build()
BuildRootOpts(resolved) ==
    /\ cmd.status = "done"
    /\ cmd.root.status = "none"
    /\ cmd' = [cmd EXCEPT !.root = RootOpts_build(cmd.root_opts, resolved)]
    /\ UNCHANGED <<lvars, ovars, kmsg, fs>>

CmdInit ==
    /\ cfg = CfgPost
    /\ LoaderInit
    /\ sysconf = NoSysconf
    /\ aliases = <<>>
    /\ processed = {}
    /\ acalls = <<>>
    /\ orch = OrchNotStarted
    /\ threads = NoThreads
    /\ handlers = <<>>
    /\ mainWaker = FALSE
    /\ \E cmdline \in CmdLines : \E machine \in Machines :
          cmd = CmdStart(cmdline, machine)
    /\ kmsg = <<>>
    /\ fs = FsOff

CmdNext ==
    \/ ParseArg
    \/ ParseInnerEnd
    \/ ParseCurrentEnd
    \/ \E resolved \in BOOLEAN : BuildRootOpts(resolved)

SpecCmdline == CmdInit /\ [][CmdNext]_vars

\* parse_inner has returned Ok: the threshold is final.
Parsed == cmd.status \in {"parsed", "done"}

\* The arguments handled so far.
ArgsSeen == SubSeq(cmd.cmdline, 1, cmd.pos - 1)

(***************************************************************************)
(* C21.  First-wins verbosity.  The final threshold is the level of the    *)
(* first valid value in command-line order (the values of booster.log      *)
(* taken left to right); an invalid value, `console`, a key without value  *)
(* never establish a level, a later valid value never overwrites it, and   *)
(* with no valid value the threshold is Info.                              *)
(***************************************************************************)
C21_FirstWinsState ==
    LET \* the level the first valid value of an argument names, 0 if none
        Names(arg) ==
            CASE arg = <<"ignited", ".", "log", "=", "debug">>
                   -> 7
              [] arg = <<"ignited", ".", "log", "=", "error">>
                   -> 3
              [] arg = <<"booster", ".", "log", "=", "console", ",", "warning", ",", "info">>
                   -> 4
              [] arg = <<"booster", ".", "log", "=", ",", "bogus", ",", ",", "notice">>
                   -> 5
              [] arg = <<"booster", ".", "debug">>
                   -> 7
              [] arg = <<"quiet">>
                   -> 3
              [] OTHER -> 0
        Valid(arg) == Names(arg) # 0
        valid == SelectSeq(cmd.cmdline, Valid)
        seen == SelectSeq(ArgsSeen, Valid)
    IN  /\ Parsed =>
              cmd.current_level = IF valid = <<>> THEN Info
                                  ELSE Names(valid[1])
        /\ cmd.status \in {"parsing", "parsed", "done"} =>
              /\ cmd.verbosity_level.some <=> seen # <<>>
              /\ seen # <<>> => cmd.verbosity_level.val = Names(seen[1])

C21_FirstWinsStep ==
    cmd.verbosity_level.some => cmd'.verbosity_level = cmd.verbosity_level

C21_FirstWins == []C21_FirstWinsState /\ [][C21_FirstWinsStep]_vars

\* booster.log=console,warning,info came before ignited.log=debug: Warn
C21_Witness ==
    /\ Parsed
    /\ cmd.cmdline = <<<<"booster", ".", "log", "=", "console", ",", "warning", ",", "info">>,
                       <<"ignited", ".", "log", "=", "debug">>>>
    /\ cmd.current_level = Warn


\* The exit status the process ends with after parse_current: 8 when it
\* leaves through .bail(8)?, 101 when the main thread panics (there is then
\* no fatal path: no kcrit, no emergency shell, no sync); 0 stands for no
\* exit.
ParseExitCode(p) ==
    IF p.status = "error" THEN 8
    ELSE IF p.status = "panicked" THEN 101
    ELSE 0

\* The line autodiscover_root logs before it reads the EFI variable.
AutodiscoveryLogged(log) ==
    \E i \in 1..Len(log) : log[i].args = <<"root= param is not specified">>

\* C22: once the arguments are parsed without error, parse_current
\* autodiscovers the root only if no root= gave a source; the discovered
\* source is PartType(type UUID of the architecture, GUID of the
\* LoaderDevicePartUUID variable); a variable that cannot be read or decoded
\* makes parsing fail with exit code 8.
C22_Autodiscovery ==
    [][cmd.status = "parsed" =>
         LET TypeUuid ==
                 CASE cmd.arch = "x86_64" ->
                          <<"4f68bce3e8cd4db196e7fbcaf984b709">>
                   [] cmd.arch = "x86" ->
                          <<"44479540f29741b29af7d131d5f0458a">>
                   [] cmd.arch = "arm" ->
                          <<"69dad7102ce44e3cb16c21a1d49abed3">>
                   [] cmd.arch = "aarch64" ->
                          <<"b921b0451df041c3af444c6f280d3fae">>
         IN  IF cmd.root_opts.source.some
             THEN /\ cmd'.status = "done"
                  /\ cmd'.root_opts = cmd.root_opts
                  /\ ~AutodiscoveryLogged(kmsg')
             ELSE IF cmd.efivar.content = "guid"
             THEN /\ cmd'.status = "done"
                  /\ cmd'.root_opts.source =
                         SomeSource(PartitionSource("PartType", TypeUuid, 0,
                                                    cmd.efivar.guid))
             ELSE /\ cmd'.status = "error"
                  /\ ParseExitCode(cmd') = 8
                  /\ ~cmd'.root_opts.source.some]_vars

\* The loop of parse_inner from the argument p.pos on; an Err or a panic
\* leaves it.
RECURSIVE parse_inner_loop(_)
parse_inner_loop(p) ==
    IF p.status # "parsing" \/ p.pos > Len(p.cmdline) THEN p
    ELSE parse_inner_loop([parse_arg(p, p.cmdline[p.pos])
                              EXCEPT !.pos = @ + 1])

\* CmdlineArgs::parse_inner
parse_inner(p) ==
    LET q == parse_inner_loop(p)
    IN  IF q.status = "parsing" THEN parse_inner_end(q) ELSE q

\* CmdlineArgs::parse_current
parse_current(p) ==
    LET q == parse_inner(p)
    IN  IF q.status = "parsed" THEN parse_current_end(q) ELSE q

\* The rd.luks.* arguments
IsLuksArg(arg) ==
    LET cut == SplitOnce(arg, <<"=">>)
        arg_key == IF cut.some THEN cut.before ELSE arg
    IN  arg_key \in {<<"rd", ".", "luks", ".", "options">>,
                     <<"rd", ".", "luks", ".", "name">>,
                     <<"rd", ".", "luks", ".", "uuid">>}

\* parse_current has ended: with Ok, with Err, or in a panic.
ParseEnded == cmd.status \in {"done", "error", "panicked"}

\* C23: a command line with rd.luks.* arguments parses without aborting, to
\* the init, root options, resume source and module parameters that the
\* same command line without those arguments parses to.
C23_LuksIgnored ==
    ParseEnded =>
        LET without == SelectSeq(cmd.cmdline, LAMBDA arg : ~IsLuksArg(arg))
            machine == [arch |-> cmd.arch, efivar |-> cmd.efivar.content,
                        printk |-> cmd.printk_devkmsg]
            other == parse_current(CmdStart(without, machine))
        IN  /\ cmd.status = other.status
            /\ cmd.init = other.init
            /\ cmd.root_opts = other.root_opts
            /\ cmd.resume_source = other.resume_source
            /\ cmd.mod_params = other.mod_params

\* The loop of parse_inner has handled the first argument and nothing
\* else, and it was root=<value> or resume=<value> with
\* <value> = prefix ++ rest.
FirstArgParsed(key, prefix) ==
    /\ cmd.status \in {"parsing", "error", "panicked"}
    /\ ~cmd.flushed
    /\ cmd.pos = 2
    /\ StripPrefix(cmd.cmdline[1], <<key, "=">> \o prefix).some

\* The rest of the value of the first argument after the prefix.
FirstArgRest(key, prefix) ==
    StripPrefix(cmd.cmdline[1], <<key, "=">> \o prefix).val

\* The source the first argument was parsed to.
FirstArgSource(key) ==
    IF key = "root" THEN cmd.root_opts.source ELSE cmd.resume_source

\* C24: a /dev/disk/by-uuid/, by-label/, by-partuuid/ or by-partlabel/ path
\* parses to what the UUID=, LABEL=, PARTUUID= or PARTLABEL= spelling of the
\* same UUID or label parses to: Uuid(u), Label(l), PartUuid(u),
\* PartLabel(l), never None or RawDevice.
C24_SpellingsEquivalent ==
    \A key \in {"root", "resume"} :
        \A kind \in {"Uuid", "Label", "PartUuid", "PartLabel"} :
            LET path == CASE kind = "Uuid" -> ByUuid \o <<"/">>
                          [] kind = "Label" -> ByLabel \o <<"/">>
                          [] kind = "PartUuid" -> ByPartuuid \o <<"/">>
                          [] kind = "PartLabel" -> ByPartlabel \o <<"/">>
                tag == CASE kind = "Uuid" -> <<"UUID", "=">>
                         [] kind = "Label" -> <<"LABEL", "=">>
                         [] kind = "PartUuid" -> <<"PARTUUID", "=">>
                         [] kind = "PartLabel" -> <<"PARTLABEL", "=">>
            IN  FirstArgParsed(key, path) =>
                    LET rest == FirstArgRest(key, path)
                        expected ==
                            SomeSource(PartitionSource(kind, rest, 0, <<>>))
                    IN  /\ cmd.status = "parsing"
                        /\ FirstArgSource(key) = expected
                        /\ PartitionSource_parse(tag \o rest) = expected
                        /\ PartitionSource_parse(path \o rest) = expected

\* The options of the rootflags= values among args, in order: what the
\* loops of the add_opts calls iterate over.
RECURSIVE RootflagsTokens(_)
RootflagsTokens(args) ==
    IF args = <<>> THEN <<>>
    ELSE LET cut == SplitOnce(Head(args), <<"=">>)
         IN  (IF cut.some /\ cut.before = <<"rootflags">>
              THEN Split(cut.after, ",") ELSE <<>>)
             \o RootflagsTokens(Tail(args))

\* The strings of a list joined with commas.
RECURSIVE CommaJoin(_)
CommaJoin(strs) ==
    IF Len(strs) = 1 THEN strs[1]
    ELSE strs[1] \o <<",">> \o CommaJoin(Tail(strs))

\* C25: after any sequence of rootflags= values, a flag is set iff the last
\* option naming it is the one that sets it, whatever the other options
\* are; the options string is the comma-join, in order, of exactly the
\* options that name no flag (none if there is no such option); nosymfollow
\* changes neither, and nosuid,nodev,discard gives NOSUID|NODEV and
\* "discard".
C25_AddOpts ==
    cmd.status # "off" =>
        LET tokens == RootflagsTokens(ArgsSeen)
            Sets(t, f) == Len(t) = 1 /\ t[1] \in DOMAIN InsertsFlag
                          /\ InsertsFlag[t[1]] = f
            Clears(t, f) == Len(t) = 1 /\ t[1] \in DOMAIN RemovesFlag
                            /\ RemovesFlag[t[1]] = f
            Names(t, f) == Sets(t, f) \/ Clears(t, f)
            Recognized(t) ==
                \/ t = <<"nosymfollow">>
                \/ Len(t) = 1 /\ t[1] \in DOMAIN InsertsFlag
                                          \cup DOMAIN RemovesFlag
            AllFlags == {InsertsFlag[k] : k \in DOMAIN InsertsFlag}
                        \cup {RemovesFlag[k] : k \in DOMAIN RemovesFlag}
            free == SelectSeq(tokens, LAMBDA t : ~Recognized(t))
        IN  /\ cmd.root_opts.flags \subseteq AllFlags
            /\ \A f \in AllFlags :
                   f \in cmd.root_opts.flags <=>
                       \E i \in 1..Len(tokens) :
                           /\ Sets(tokens[i], f)
                           /\ \A j \in (i + 1)..Len(tokens) :
                                  ~Names(tokens[j], f)
            /\ cmd.root_opts.options.some <=> free # <<>>
            /\ free # <<>> => cmd.root_opts.options.val = CommaJoin(free)
            /\ tokens = <<<<"nosuid">>, <<"nodev">>, <<"discard">>>> =>
                   /\ cmd.root_opts.flags = {"MS_NOSUID", "MS_NODEV"}
                   /\ cmd.root_opts.options.val = <<"discard">>
            /\ tokens = <<<<"nosymfollow">>, <<"noatime">>>> =>
                   /\ cmd.root_opts.flags = {"MS_NOATIME"}
                   /\ ~cmd.root_opts.options.some

\* Two rootflags= values were parsed: the second cleared what the first
\* set and the unrecognized option stayed.
C25_Witness ==
    /\ ArgsSeen = << <<"rootflags", "=", "nosuid", ",", "nodev", ",",
                       "discard">>,
                     <<"rootflags", "=", "suid", ",", "dev">> >>
    /\ cmd.root_opts.flags = {}
    /\ cmd.root_opts.options = [some |-> TRUE, val |-> <<"discard">>]

\* The last ro / rw argument of the command line asked for read-write.
LastModeIsRw ==
    LET modes == {i \in 1..Len(cmd.cmdline) :
                      cmd.cmdline[i] \in {<<"ro">>, <<"rw">>}}
    IN  \E i \in modes : /\ cmd.cmdline[i] = <<"rw">>
                         /\ \A j \in modes : j <= i

\* C26: build() on a builder that has a source and a filesystem type gives
\* the root options with MS_RDONLY cleared iff the last ro / rw argument was
\* rw (set if it was ro or there was none), the other flags, the type and
\* the options as the builder has them, and init as parsed.
C26_BuildRdonly ==
    [][(/\ cmd.status = "done"
        /\ cmd.root.status = "none"
        /\ cmd'.root.status # "none"
        /\ cmd.root_opts.source.some
        /\ cmd.root_opts.fstype.some) =>
           /\ cmd'.root.status = "built"
           /\ "MS_RDONLY" \in cmd'.root.flags <=> ~LastModeIsRw
           /\ cmd'.root.flags \ {"MS_RDONLY"} = cmd.root_opts.flags
           /\ cmd'.root.fstype = cmd.root_opts.fstype.val
           /\ cmd'.root.options = cmd.root_opts.options
           /\ cmd'.init = cmd.init /\ cmd.init.some]_vars

\* The insert(module, param, args) calls that parse_inner makes for args, in
\* order: one for each <module>.<param>=<args> whose key is none of the
\* keys with an arm of their own.
RECURSIVE InsertCalls(_)
InsertCalls(args) ==
    IF args = <<>> THEN <<>>
    ELSE LET cut == SplitOnce(Head(args), <<"=">>)
             key == SplitOnce(cut.before, <<".">>)
             OwnArm == {<<"ignited", ".", "log">>, <<"booster", ".", "log">>,
                        <<"booster", ".", "debug">>}
         IN  (IF cut.some /\ key.some /\ cut.before \notin OwnArm
                 /\ ~IsLuksArg(Head(args))
              THEN << [module |-> key.before, param |-> key.after,
                       args |-> cut.after] >>
              ELSE <<>>)
             \o InsertCalls(Tail(args))

\* Module names to ask get_params for.
QueryModules ==
    { <<"mod", "-", "a">>, <<"mod", "_", "a">>, <<"modb">>,
      <<"mod", "-", "a", "-", "b">>, <<"mod", "_", "a", "-", "b">>,
      <<"mod", "_", "a", "_", "b">>, <<"amdgpu">>, <<"absent", "-", "mod">> }

\* C27: get_params(m2) is the list of the "p=v" strings of the
\* insert(m1, p, v) calls made so far with normalize(m1) = normalize(m2), in
\* the order of the calls, empty if there is none; normalize turns dashes
\* into underscores and is idempotent.
C27_ModParams ==
    cmd.status # "off" =>
        LET calls == InsertCalls(ArgsSeen)
        IN  \A m2 \in QueryModules :
                LET mine == SelectSeq(calls, LAMBDA c :
                                normalize_module(c.module)
                                    = normalize_module(m2))
                IN  /\ get_params(cmd.mod_params, m2) =
                           [i \in 1..Len(mine) |->
                               mine[i].param \o <<"=">> \o mine[i].args]
                    /\ normalize_module(normalize_module(m2))
                           = normalize_module(m2)
                    /\ \A i \in 1..Len(normalize_module(m2)) :
                           normalize_module(m2)[i] =
                               IF m2[i] = "-" THEN "_" ELSE m2[i]

\* Two parameters were given for one module under its dashed and its
\* underscored name.
C27_Witness ==
    /\ ArgsSeen = << <<"mod", "-", "a", ".", "p", "=", "1">>,
                     <<"mod", "_", "a", ".", "q", "=", "2">> >>
    /\ get_params(cmd.mod_params, <<"mod", "-", "a">>) =
           << <<"p", "=", "1">>, <<"q", "=", "2">> >>
    /\ get_params(cmd.mod_params, <<"modb">>) = <<>>

(***************************************************************************)
(* KmsgBuf on its own: kdebug, kwarn and flush_with_level called in any    *)
(* order on a buffer made by KmsgBuf::new.  `history` records the calls.   *)
(***************************************************************************)
MaxLogCalls == 4

\* KmsgBuf::new(kcon) on a KConsole with the threshold `level`
KmsgBufStart(level) ==
    [status |-> "kmsgbuf", inner_buf |-> <<>>, flushed |-> FALSE,
     current_level |-> level, out |-> <<>>, history |-> <<>>]

\* The call is recorded with its position.
Called(p, op, level, args) ==
    [p EXCEPT !.history = Append(@, [n |-> Len(@) + 1, op |-> op,
                                     level |-> level, args |-> args])]

\* kmsg_buf.kdebug(args) / kmsg_buf.kwarn(args)
KmsgBufLog(level, args) ==
    /\ cmd.status = "kmsgbuf"
    /\ Len(cmd.history) < MaxLogCalls
    /\ Written(Called(KmsgBuf_kany(cmd, level, args), "log", level, args))
    /\ UNCHANGED <<lvars, ovars, fs>>

\* kmsg_buf.flush_with_level(level)
KmsgBufFlush(level) ==
    /\ cmd.status = "kmsgbuf"
    /\ Len(cmd.history) < MaxLogCalls
    /\ Written(Called(flush_with_level(cmd, level), "flush", level, <<>>))
    /\ UNCHANGED <<lvars, ovars, fs>>

KmsgBufInit ==
    /\ cfg = CfgPost
    /\ LoaderInit
    /\ sysconf = NoSysconf
    /\ aliases = <<>>
    /\ processed = {}
    /\ acalls = <<>>
    /\ orch = OrchNotStarted
    /\ threads = NoThreads
    /\ handlers = <<>>
    /\ mainWaker = FALSE
    /\ \E level \in {Debug, Info, Err} : cmd = KmsgBufStart(level)
    /\ kmsg = <<>>
    /\ fs = FsOff

KmsgBufNext ==
    \/ \E level \in {Debug, Warn} : \E args \in {<<"m1">>, <<"m2">>} :
           KmsgBufLog(level, args)
    \/ \E level \in {Debug, Info, Warn, Err} : KmsgBufFlush(level)

SpecKmsgBuf == KmsgBufInit /\ [][KmsgBufNext]_vars

\* The positions of the flush_with_level calls made so far.
FlushCalls == {i \in 1..Len(cmd.history) : cmd.history[i].op = "flush"}

\* The threshold the entry logged by call i is held against: the level of
\* the first flush if the entry was queued, the level of the last flush
\* before it if it was forwarded.
ThresholdFor(i) ==
    LET first == CHOOSE f \in FlushCalls : \A g \in FlushCalls : f <= g
        before == {f \in FlushCalls : f < i}
        last == CHOOSE f \in before : \A g \in before : g <= f
    IN  IF i < first THEN cmd.history[first].level
        ELSE cmd.history[last].level

\* C28: nothing is written to /dev/kmsg before flush_with_level is called
\* and the entries wait in the queue in arrival order; flush_with_level(L)
\* sets the threshold to L and writes the queued entries in arrival order,
\* each iff its level is at most L, leaving the queue empty; an entry logged
\* after the flush is not queued but written at once, under the same rule.
C28_DeferredLog ==
    cmd.status = "kmsgbuf" =>
        LET logs == SelectSeq(cmd.history, LAMBDA h : h.op = "log")
            Entry(h) == [level |-> h.level, args |-> h.args]
        IN  IF FlushCalls = {}
            THEN /\ ~cmd.flushed
                 /\ kmsg = <<>>
                 /\ cmd.inner_buf = [i \in 1..Len(logs) |-> Entry(logs[i])]
            ELSE LET last == CHOOSE f \in FlushCalls :
                                 \A g \in FlushCalls : g <= f
                     kept == SelectSeq(logs, LAMBDA h :
                                 h.level <= ThresholdFor(h.n))
                 IN  /\ cmd.flushed
                     /\ cmd.inner_buf = <<>>
                     /\ cmd.current_level = cmd.history[last].level
                     /\ kmsg = [i \in 1..Len(kept) |-> Entry(kept[i])]

\* A debug and a warn entry were queued, the flush at Warn wrote the warn
\* entry only, and a warn entry logged afterwards was written behind it.
C28_Witness ==
    /\ cmd.status = "kmsgbuf"
    /\ Len(cmd.history) = 4
    /\ cmd.history[1].op = "log" /\ cmd.history[1].level = Debug
    /\ cmd.history[2].op = "log" /\ cmd.history[2].level = Warn
    /\ cmd.history[3].op = "flush" /\ cmd.history[3].level = Warn
    /\ cmd.history[4].op = "log" /\ cmd.history[4].level = Warn
    /\ kmsg = << [level |-> Warn, args |-> cmd.history[2].args],
                 [level |-> Warn, args |-> cmd.history[4].args] >>

(***************************************************************************)
(* util.rs: delete_ramfs.  `fs` holds the file tree init sees: for each    *)
(* path its device, whether it is a directory, its parent and its name;    *)
(* with the pid of the caller and the type statfs("/") reports.            *)
(***************************************************************************)
IGNITED_TARGET_ROOT_PATH == "/system_root"
IGNITED_CONFIG == "/etc/ignited/engine.toml"

\* Device numbers: the initramfs, the new root, devtmpfs.
RamfsDev == 1
NewRootDev == 2
DevtmpfsDev == 3

Node(dev, dir, parent, name) ==
    [dev |-> dev, dir |-> dir, parent |-> parent, name |-> name]

\* What is always there: /, /etc, /etc/ignited and the mounted /dev.
BaseTree ==
    [p \in {"/", "/etc", "/etc/ignited", "/dev", "/dev/null"} |->
        CASE p = "/" -> Node(RamfsDev, TRUE, "", "/")
          [] p = "/etc" -> Node(RamfsDev, TRUE, "/", "etc")
          [] p = "/etc/ignited" -> Node(RamfsDev, TRUE, "/etc", "ignited")
          [] p = "/dev" -> Node(DevtmpfsDev, TRUE, "/", "dev")
          [] p = "/dev/null" -> Node(DevtmpfsDev, FALSE, "/dev", "null")]

\* The new root and what is under it, on the device `dev`.
NewRootTree(dev) ==
    [p \in {"/system_root", "/system_root/etc", "/system_root/etc/fstab"} |->
        CASE p = "/system_root" -> Node(dev, TRUE, "/", "system_root")
          [] p = "/system_root/etc" -> Node(dev, TRUE, "/system_root", "etc")
          [] p = "/system_root/etc/fstab" ->
                 Node(dev, FALSE, "/system_root/etc", "fstab")]

\* Files and directories of the initramfs that may or may not be there.
OptionalPaths ==
    {"/init", "/etc/initrd-release", "/etc/ignited/engine.toml", "/usr",
     "/bin"}

OptionalTree(present) ==
    LET paths == present
                 \cup (IF "/usr" \in present
                       THEN {"/usr/lib", "/usr/lib/modules"} ELSE {})
                 \cup (IF "/bin" \in present THEN {"/bin/busybox"} ELSE {})
    IN  [p \in paths |->
            CASE p = "/init" -> Node(RamfsDev, FALSE, "/", "init")
              [] p = "/etc/initrd-release" ->
                     Node(RamfsDev, FALSE, "/etc", "initrd-release")
              [] p = "/etc/ignited/engine.toml" ->
                     Node(RamfsDev, FALSE, "/etc/ignited", "engine.toml")
              [] p = "/usr" -> Node(RamfsDev, TRUE, "/", "usr")
              [] p = "/usr/lib" -> Node(RamfsDev, TRUE, "/usr", "lib")
              [] p = "/usr/lib/modules" ->
                     Node(RamfsDev, TRUE, "/usr/lib", "modules")
              [] p = "/bin" -> Node(RamfsDev, TRUE, "/", "bin")
              [] p = "/bin/busybox" -> Node(RamfsDev, FALSE, "/bin", "busybox")]

\* The union of two trees over different paths.
Merge(f, g) ==
    [p \in DOMAIN f \cup DOMAIN g |-> IF p \in DOMAIN f THEN f[p] ELSE g[p]]

\* The state delete_ramfs is called in; newroot = 0 stands for no
\* /system_root.
RamfsStart(pid, fstype, newroot, present) ==
    LET nodes == Merge(Merge(BaseTree, OptionalTree(present)),
                       IF newroot = 0 THEN <<>> ELSE NewRootTree(newroot))
    IN  [status |-> "start", pid |-> pid, fstype |-> fstype,
         nodes |-> nodes, before |-> nodes, root_dev |-> 0]

\* exists_in_root: stat succeeds and the path is on the root device.
exists_in_root(nodes, path, root_dev) ==
    path \in DOMAIN nodes /\ nodes[path].dev = root_dev

\* full_sanity_check: TRUE iff it returns Ok(root_dev).
full_sanity_check(f) ==
    LET root_dev == f.nodes["/"].dev
    IN  /\ f.pid = 1
        /\ IGNITED_TARGET_ROOT_PATH \in DOMAIN f.nodes
        /\ f.nodes[IGNITED_TARGET_ROOT_PATH].dev # root_dev
        /\ exists_in_root(f.nodes, "/etc/initrd-release", root_dev)
        /\ exists_in_root(f.nodes, IGNITED_CONFIG, root_dev)
        /\ exists_in_root(f.nodes, "/init", root_dev)
        /\ f.fstype \in {"ramfs", "tmpfs"}

\* The test delete_recursive puts on a directory entry before it descends
\* into it.
Descends(file_name) == file_name = "." \/ file_name = ".."

\* read_dir(path): the entries of the directory; `.` and `..` are not
\* among them.
read_dir(nodes, path) == {p \in DOMAIN nodes : nodes[p].parent = path}

\* remove_file / remove_dir: a directory must be empty.
remove_file(f, path) ==
    [f EXCEPT !.nodes = [p \in DOMAIN @ \ {path} |-> @[p]]]

remove_dir(f, path) ==
    IF read_dir(f.nodes, path) # {} THEN [f EXCEPT !.status = "error"]
    ELSE [f EXCEPT !.nodes = [p \in DOMAIN @ \ {path} |-> @[p]]]

\* delete_recursive(path, root_dev), and its loop over the entries of a
\* directory.
RECURSIVE delete_recursive(_, _)
RECURSIVE delete_entries(_, _)
delete_recursive(f, path) ==
    IF path \notin DOMAIN f.nodes THEN [f EXCEPT !.status = "error"]
    ELSE IF f.nodes[path].dev # f.root_dev THEN f
    ELSE IF f.nodes[path].dir
    THEN LET after == delete_entries(f, read_dir(f.nodes, path))
         IN  IF after.status = "error" THEN after
             ELSE IF path # "/" THEN remove_dir(after, path)
             ELSE after
    ELSE IF path # "/" THEN remove_file(f, path)
    ELSE f

delete_entries(f, entries) ==
    IF entries = {} \/ f.status = "error" THEN f
    ELSE LET entry == CHOOSE e \in entries : TRUE
         IN  delete_entries(
                 IF Descends(f.nodes[entry].name)
                 THEN delete_recursive(f, entry) ELSE f,
                 entries \ {entry})

\* let root_dev = full_sanity_check()?;
RamfsSanityCheck ==
    /\ fs.status = "start"
    /\ fs' = IF full_sanity_check(fs)
             THEN [fs EXCEPT !.status = "checked",
                             !.root_dev = fs.nodes["/"].dev]
             ELSE [fs EXCEPT !.status = "error"]
    /\ UNCHANGED <<lvars, ovars, cmd, kmsg>>

\* delete_recursive(Path::new("/"), root_dev)
RamfsDelete ==
    /\ fs.status = "checked"
    /\ fs' = LET f == delete_recursive(fs, "/")
             IN  IF f.status = "error" THEN f ELSE [f EXCEPT !.status = "ok"]
    /\ UNCHANGED <<lvars, ovars, cmd, kmsg>>

RamfsInit ==
    /\ cfg = CfgPost
    /\ LoaderInit
    /\ sysconf = NoSysconf
    /\ aliases = <<>>
    /\ processed = {}
    /\ acalls = <<>>
    /\ orch = OrchNotStarted
    /\ threads = NoThreads
    /\ handlers = <<>>
    /\ mainWaker = FALSE
    /\ cmd = CmdOff
    /\ kmsg = <<>>
    /\ \E pid \in {1, 7} : \E fstype \in {"ramfs", "tmpfs", "ext4"} :
          \E newroot \in {0, RamfsDev, NewRootDev} :
              \E present \in SUBSET OptionalPaths :
                  fs = RamfsStart(pid, fstype, newroot, present)

RamfsNext ==
    \/ RamfsSanityCheck
    \/ RamfsDelete

SpecRamfs == RamfsInit /\ [][RamfsNext]_vars

\* C29: once delete_ramfs has returned Ok, nothing but / is left on the
\* device of the old root, and everything that was on another device is
\* there as it was.
C29_RamfsDeleted ==
    fs.status = "ok" =>
        /\ \A p \in DOMAIN fs.nodes \ {"/"} : fs.nodes[p].dev # fs.root_dev
        /\ \A p \in DOMAIN fs.before :
               fs.before[p].dev # fs.root_dev =>
                   p \in DOMAIN fs.nodes /\ fs.nodes[p] = fs.before[p]

\* C30: a load that failed (the .ko file could not be opened, the
\* parameters could not be turned into a C string, or finit_module
\* returned an error) has an entry at Crit level for its module in the
\* kernel log.
C30_FailureLogged ==
    \A w \in DOMAIN workers :
        Failed(w) =>
            \E i \in 1..Len(kmsg) :
                /\ kmsg[i].level = Crit
                /\ workers[w].module \in Range(kmsg[i].args)

(***************************************************************************)
(* The loader under fair scheduling: a thread that can take its next step  *)
(* eventually takes it.  Whether a request is made, and whether finit      *)
(* fails, is left to the environment.                                      *)
(***************************************************************************)
SpecFair ==
    /\ Init
    /\ [][Next]_vars
    /\ WF_vars(\E r \in Requests : LoadModulesLock(r) /\ UNCHANGED bvars)
    /\ WF_vars(\E r \in Requests : LoadModulesEnqueue(r) /\ UNCHANGED bvars)
    /\ WF_vars(\E r \in Requests : LoadModulesReturn(r) /\ UNCHANGED bvars)
    /\ WF_vars(\E r \in Requests : ModWgWait(r) /\ UNCHANGED bvars)
    /\ WF_vars(\E w \in Workers : LoadModuleDepsWaited(w) /\ UNCHANGED bvars)
    /\ WF_vars(\E w \in Workers :
                  FinitOk(w) /\ FinitLogged(w, "none")
                  /\ UNCHANGED <<ovars, cmd, fs>>)
    /\ WF_vars(\E w \in Workers : LoadModuleRemove(w) /\ UNCHANGED bvars)
    /\ WF_vars(\E w \in Workers : LoadModulePostDeps(w) /\ UNCHANGED bvars)
    /\ WF_vars(\E w \in Workers : LoadModuleUnlock(w) /\ UNCHANGED bvars)
    /\ WF_vars(\E w \in Workers : LoadModuleReturn(w) /\ UNCHANGED bvars)

\* A worker has ended without loading its module: its finit call failed,
\* or it panicked before it made the call.
SomeWorkerFailed == \E w \in Workers : Failed(w) \/ Panicked(w)

\* C31: with a cycle in module_deps (a requires b, b requires a) a request
\* that reaches the cycle does not wait for ever: the token it was given
\* is released, or the loader gives up (here: unless a worker has failed,
\* which blocks the token whatever the configuration).
C31_CycleDoesNotBlock ==
    \A r \in Requests :
        (cfg.name = "cycle" /\ Returned(r)) ~>
            (Released(r) \/ SomeWorkerFailed)

\* The orchestrator is in the Listening loop.
Listening == orch.pc = "poll"

\* C32: the Listening loop is left for the stop of the threads only by a
\* poll that returned the main-waker event; a poll that fails with
\* Interrupted, or returns without that event, leaves the orchestrator
\* listening, with no error; any other poll error is fatal with exit code
\* 14.
C32_ListeningState ==
    /\ Listening /\ orch.polled # "none" =>
           /\ orch.polled \in {"interrupted", "expired"}
           /\ orch.code = 0 /\ orch.status = "running"
    /\ orch.polled = "woken" <=> "poll" \in Range(orch.steps)
    /\ orch.polled = "error" =>
           orch.code = 14 /\ "poll" \notin Range(orch.steps)
    /\ orch.code = 14 => orch.polled = "error"

C32_ListeningStep ==
    Listening /\ orch' # orch =>
        \/ /\ orch'.polled \in {"interrupted", "expired"}
           /\ orch' = [orch EXCEPT !.polled = orch'.polled]
        \/ /\ orch'.polled = "woken"
           /\ mainWaker
           /\ orch'.pc = "udev_stop_wake"
           /\ orch'.code = 0
        \/ /\ orch'.polled = "error"
           /\ orch'.pc = "kcrit"
           /\ orch'.code = 14

C32_ListeningLoop == []C32_ListeningState /\ [][C32_ListeningStep]_vars

\* A poll was interrupted and the orchestrator is polling again.
C32_Witness ==
    /\ Listening
    /\ orch.polled = "interrupted"
    /\ orch.code = 0

\* C33: a uevent whose thread has run was routed to one handler, the first
\* that applies of: MODALIAS in env -> load_modalias; subsystem block ->
\* block device; subsystem net -> network; subsystem hidraw with action add
\* -> hidraw; none -> dropped.  A block uevent without MODALIAS reaches the
\* block-device handler.
C33_Routing ==
    \A i \in 1..Len(handlers) :
        LET u == handlers[i].uevent
            routed == handlers[i].handler
        IN  IF handlers[i].state = "spawned" THEN routed = "none"
            ELSE /\ routed \in {"load_modalias", "block_device", "network",
                                "hidraw", "dropped"}
                 /\ routed = "load_modalias" <=> u.modalias
                 /\ routed = "block_device" <=>
                        ~u.modalias /\ u.subsystem = "block"
                 /\ routed = "network" <=> ~u.modalias /\ u.subsystem = "net"
                 /\ routed = "hidraw" <=>
                        /\ ~u.modalias
                        /\ u.subsystem = "hidraw" /\ u.action = "add"
                 /\ u.dev = "sda" => routed = "block_device"
                 /\ u.dev = "mmcblk0" => routed = "load_modalias"

(***************************************************************************)
(* C34.  The listener never waits for a handler: each uevent is handed to  *)
(* a thread of its own that nobody joins, so while the listener is in its  *)
(* event loop it can receive and dispatch the next uevent (here: as long   *)
(* as fewer than MaxUevents were received) and return on its wake token,   *)
(* whatever the handlers of earlier uevents are doing.                     *)
(***************************************************************************)
C34_ListenerNeverWaits ==
    threads["udev"].state = "polling" =>
        /\ Len(handlers) < MaxUevents =>
              \A uevent \in UEvents : ENABLED UdevRecvUevent(uevent)
        /\ threads["udev"].woken => ENABLED UdevWoken

\* A second uevent was dispatched, and its handler has ended, while the
\* handler of the first is still running and the listener is polling.
C34_Witness ==
    /\ threads["udev"].state = "polling"
    /\ Len(handlers) = 2
    /\ handlers[1].state = "spawned"
    /\ handlers[2].state # "spawned"

(***************************************************************************)
(* C35.  Liveness of the loader: when no finit_module call fails (and no    *)
(* worker panics before its call) and the ordering induced by the          *)
(* configuration is acyclic, then under fair scheduling every completion   *)
(* token that load_modules returned is eventually released, and `loading`  *)
(* eventually becomes empty again, also when a post-dependency x of a      *)
(* lists a as its pre-dependency.                                          *)
(***************************************************************************)
C35_LoaderLiveness ==
    /\ \A r \in Requests :
          (Acyclic /\ Returned(r)) ~> (Released(r) \/ SomeWorkerFailed)
    /\ (Acyclic /\ DOMAIN loading # {}) ~>
          (DOMAIN loading = {} \/ SomeWorkerFailed)

\* parse_inner returned Err: it left through `?` before its flush.
ParseAborted == cmd.status = "error" /\ ~cmd.flushed

\* The key of the argument that parse_inner handled last.
LastKey ==
    LET arg == cmd.cmdline[cmd.pos - 1]
        cut == SplitOnce(arg, <<"=">>)
    IN  IF cut.some THEN cut.before ELSE arg

(***************************************************************************)
(* C36.  When the parse of the command line aborts with an error (an       *)
(* unparseable root= or resume=, an init= path with a NUL), nothing that   *)
(* was queued in the deferred buffer is written to kmsg and the threshold  *)
(* of the sink keeps the value it had: flush_with_level is reached only    *)
(* once every argument was handled without an error.                       *)
(***************************************************************************)
C36_AbortDropsQueue ==
    /\ ParseAborted =>
          /\ LastKey \in {<<"root">>, <<"resume">>, <<"init">>}
          /\ kmsg = <<>> /\ cmd.out = <<>>
          /\ cmd.current_level = VerbosityLevel_default
    /\ cmd.flushed => cmd.pos > Len(cmd.cmdline)

\* The parse failed with a diagnostic queued and a level established that
\* is not the threshold of the sink.
C36_Witness ==
    /\ ParseAborted
    /\ cmd.inner_buf # <<>>
    /\ cmd.verbosity_level.some
    /\ cmd.verbosity_level.val # cmd.current_level

\* The key of an argument, and its value (None without `=`).
ArgKey(arg) ==
    IF SplitOnce(arg, <<"=">>).some THEN SplitOnce(arg, <<"=">>).before
    ELSE arg
ArgValue(arg) ==
    IF SplitOnce(arg, <<"=">>).some
    THEN [some |-> TRUE, val |-> SplitOnce(arg, <<"=">>).after]
    ELSE NoneStr

\* The arguments handled so far that have `key` and a value.
Given(key) ==
    {i \in 1..(cmd.pos - 1) :
        ArgKey(cmd.cmdline[i]) = <<key>> /\ ArgValue(cmd.cmdline[i]).some}

\* Of those, the ones whose value the handler of the key accepts.
Accepted(key) ==
    {i \in Given(key) :
        LET v == ArgValue(cmd.cmdline[i]).val
        IN  CASE key \in {"root", "resume"} -> PartitionSource_parse(v).some
              [] key = "init" -> "\\0" \notin Range(v)
              [] OTHER -> TRUE}

\* The value of the first accepted argument with `key`.
FirstAccepted(key) ==
    ArgValue(cmd.cmdline[CHOOSE i \in Accepted(key) :
                            \A j \in Accepted(key) : i <= j]).val

\* The ro / rw arguments handled so far.
ModesSeen ==
    {i \in 1..(cmd.pos - 1) : ArgKey(cmd.cmdline[i]) \in {<<"ro">>, <<"rw">>}}

(***************************************************************************)
(* C37.  Repeated keys: root=, rootfstype=, init= and resume= keep the     *)
(* first value that was accepted, a later value never replaces it; ro and  *)
(* rw take the last occurrence; a later root= or resume= whose value does  *)
(* not parse makes the parse fail although an earlier one was accepted.    *)
(***************************************************************************)
C37_RepeatedKeys ==
    /\ Accepted("root") # {} =>
          cmd.root_opts.source = PartitionSource_parse(FirstAccepted("root"))
    /\ Accepted("resume") # {} =>
          cmd.resume_source = PartitionSource_parse(FirstAccepted("resume"))
    /\ Accepted("rootfstype") # {} =>
          cmd.root_opts.fstype =
              [some |-> TRUE, val |-> FirstAccepted("rootfstype")]
    /\ Accepted("init") # {} =>
          cmd.init = [some |-> TRUE, val |-> FirstAccepted("init")]
    /\ ModesSeen # {} =>
          cmd.root_opts.rw =
              (ArgKey(cmd.cmdline[CHOOSE i \in ModesSeen :
                                     \A j \in ModesSeen : j <= i]) = <<"rw">>)
    /\ \A key \in {"root", "resume"} :
          Given(key) \ Accepted(key) # {} =>
              /\ cmd.status = "error"
              /\ cmd.pos - 1 \in Given(key) \ Accepted(key)

\* Two root= arguments with values that parse to different sources were
\* handled.
C37_Witness ==
    /\ cmd.pos = 3
    /\ Accepted("root") = {1, 2}
    /\ PartitionSource_parse(ArgValue(cmd.cmdline[2]).val)
          # PartitionSource_parse(ArgValue(cmd.cmdline[1]).val)

\* The listener thread has not yet created, bound and registered its
\* netlink socket.
SocketUnbound == threads["udev"].state = "setup"

(***************************************************************************)
(* C38.  Once UdevListener::listen has returned Ok, the netlink socket of  *)
(* the listener is bound and registered in its event loop, so that no      *)
(* uevent emitted from then on (before or during the scan of the sysfs     *)
(* walker, which starts later) is lost.                                    *)
(***************************************************************************)
C38_BoundOnReturn == Did("udev_listen") => ~SocketUnbound

(***************************************************************************)
(* C39.  A netlink packet that does not decode as a UEvent does not stop   *)
(* the listener: the thread stays in its event loop for the uevents that   *)
(* follow, and returns from it only on UnexpectedEof from the socket or on *)
(* its stop-waker.                                                         *)
(***************************************************************************)
C39_UndecodableSkipped ==
    Did("udev_listen") /\ threads["udev"].state = "exited" =>
        threads["udev"].quit \in {"eof", "woken"}
====
